---- MODULE Spec2Model ----
(***************************************************************************)
(* Model of the agentic marketing workflow                                 *)
(* (09.Cases/AgenticMarketingContentGen/marketing_workflow):               *)
(*   - utils.py     extract_json_object / _fix_json_string                 *)
(*   - tools.py     SoraVideoGenerationTools (class-level generation lock) *)
(*   - workflow.py  AgenticMarketingWorkflow.run, _PackagingExecutor       *)
(*   - research.py  DeepResearchExecutor.handle                            *)
(*                                                                         *)
(* Text is a sequence of characters.  A character is a one-character       *)
(* string; the control characters that a TLA+ string cannot spell are      *)
(* written by name ("<BS>", "<VT>", "<US>"), as is the backtick ("<BT>").  *)
(***************************************************************************)
EXTENDS Integers, Sequences, FiniteSets, TLC

VARIABLES
    payload,        \* extractor: the text handed to extract_json_object
    extractOut,     \* extractor: outcome of extract_json_object(payload)
    fixOut,         \* extractor: what the inner _fix_json_string call returned
    output_dir,     \* video: per tool instance, whether _output_dir is set
    credentials,    \* video: per tool instance, whether endpoint and api key are set
    lockHolder,     \* video: the call holding SoraVideoGenerationTools._generation_lock
    pc,             \* video: per call, where it stands in _do_generate_video
    tool,           \* video: per call, the tool instance it was made on
    seconds,        \* video: per call, the seconds argument (asked) and the
                    \* value the name is rebound to, which is sent (sent)
    elapsed,        \* video: per call, the polling loop's elapsed counter
    checks,         \* video: per call, the status requests its loop has made
    outcome,        \* video: per call, what it returned or raised
    cause,          \* video: per call, the remote failure it met, if any
    generated_videos, \* video: per tool instance, its _generated_videos list
    config,         \* run: MarketingWorkflowConfig (the fields the model reads)
    conv,           \* run: the conversation lists; conv[i] is the list handed to
                    \*      participant i, conv[6] the list packaging sends
    stage,          \* run: index of the participant to run next
    invoked,        \* run: the executors invoked so far, in order
    research,       \* run: plan, findings and strategy of the deep-research stage
    persisted,      \* run: the campaign sub-directories persist_package wrote
    stream,         \* run: the event stream: open, ended or failed
    yielded,        \* run: the data of the WorkflowOutputEvent
    returned,       \* run: what run(topic) returned or raised
    view,           \* tools: the list a caller got from generated_videos
    tavily,         \* tools: TavilySearchTools: whether _api_key and _client are set
    flux,           \* tools: FluxImageGenerationTools: whether _endpoint, _api_key,
                    \*        _output_dir and _client are set, and _generated_images
    called,         \* tools: the last call of web_search or generate_image: its
                    \*        argument, what the service did, what the tool gave back
    clock,          \* campaigns: the UTC time, in ticks
    asset_dir,      \* campaigns: per workflow object, the campaign directory its
                    \*            image and video tools write under (_output_dir)
    runs            \* campaigns: per call of run(), the workflow object, the
                    \*            campaign directory, where its assets were
                    \*            written and where its package was persisted

extractVars == <<payload, extractOut, fixOut>>
videoVars == <<output_dir, credentials, lockHolder, pc, tool, seconds, elapsed,
               checks, outcome, cause, generated_videos>>
runVars == <<config, conv, stage, invoked, research, persisted, stream, yielded, returned>>
campaignVars == <<clock, asset_dir, runs>>
toolVars == <<view, tavily, flux, called, campaignVars>>

----------------------------------------------------------------------------
(* Characters *)

\* characters a TLA+ string cannot hold: backspace, vertical tab, unit
\* separator, the backtick, one character of each CJK script that
\* _detect_language tells apart, and the two lowercase letters outside
\* ASCII that a case-insensitive [a-z] matches (U+017F, U+0131)
Char ==
    [BS |-> "<BS>",
     VT |-> "<VT>",
     US |-> "<US>",
     BT |-> "<BT>",
     HAN |-> "<HAN>",
     KANA |-> "<KANA>",
     HANGUL |-> "<HANGUL>",
     LONG_S |-> "<LONG S>",
     DOTLESS_I |-> "<DOTLESS I>"]

\* the backtick, which a TLA+ string cannot hold either

\* code points below 0x20 (ord(char) < 32) that the model can spell
ControlChars == {"\n", "\r", "\t", "\f", Char.BS, Char.VT, Char.US}

\* what str.strip() removes and the regex class \s matches
PyWs == {" ", "\t", "\n", "\r", "\f", Char.VT, Char.US}

HexDigits == {"0", "1", "2", "3", "4", "5", "6", "7", "8", "9",
              "a", "b", "c", "d", "e", "f", "A", "B", "C", "D", "E", "F"}

Digits == {"0", "1", "2", "3", "4", "5", "6", "7", "8", "9"}

Slice(s, a, b) == IF a > b THEN << >> ELSE SubSeq(s, a, b)

\* s[i : i + Len(lit)] == lit
MatchesAt(s, i, lit) ==
    /\ i >= 1
    /\ i + Len(lit) - 1 <= Len(s)
    /\ \A k \in 1..Len(lit) : s[i + k - 1] = lit[k]

----------------------------------------------------------------------------
(* json.loads: acceptance of a text by Python's JSON decoder.  Every       *)
(* scanner returns the index after what it consumed, or 0 when the         *)
(* decoder would raise JSONDecodeError.                                    *)

RECURSIVE SkipWs(_, _)
SkipWs(s, i) ==
    IF i <= Len(s) /\ s[i] \in {" ", "\t", "\n", "\r"} THEN SkipWs(s, i + 1) ELSE i

RECURSIVE SkipDigits(_, _)
SkipDigits(s, i) ==
    IF i <= Len(s) /\ s[i] \in Digits THEN SkipDigits(s, i + 1) ELSE i

\* index i is just after the opening quote
RECURSIVE ScanString(_, _, _)
ScanString(s, i, strict) ==
    IF i > Len(s) THEN 0
    ELSE IF s[i] = "\"" THEN i + 1
    ELSE IF s[i] = "\\" THEN
        IF i + 1 > Len(s) THEN 0
        ELSE IF s[i + 1] = "u" THEN
            IF i + 5 <= Len(s) /\ \A k \in 2..5 : s[i + k] \in HexDigits
            THEN ScanString(s, i + 6, strict)
            ELSE 0
        ELSE IF s[i + 1] \in {"\"", "\\", "/", "b", "f", "n", "r", "t"}
            THEN ScanString(s, i + 2, strict)
        ELSE 0
    ELSE IF strict /\ s[i] \in ControlChars THEN 0
    ELSE ScanString(s, i + 1, strict)

\* NUMBER_RE: (-?(?:0|[1-9]\d*))(\.\d+)?([eE][-+]?\d+)?
\* the integer part, from index a on
NumberInt(s, a) ==
    IF a > Len(s) \/ s[a] \notin Digits THEN 0
    ELSE IF s[a] = "0" THEN a + 1
    ELSE SkipDigits(s, a)

\* the optional fraction after the integer part that ended before b
NumberFrac(s, b) ==
    IF b # 0 /\ b + 1 <= Len(s) /\ s[b] = "." /\ s[b + 1] \in Digits
    THEN SkipDigits(s, b + 1) ELSE b

\* the exponent's digits, expected at sg
NumberExpDigits(s, c, sg) ==
    IF sg <= Len(s) /\ s[sg] \in Digits THEN SkipDigits(s, sg) ELSE c

\* the optional exponent after the number that ended before c
NumberExp(s, c) ==
    IF c # 0 /\ c <= Len(s) /\ s[c] \in {"e", "E"}
    THEN NumberExpDigits(s, c, IF c + 1 <= Len(s) /\ s[c + 1] \in {"+", "-"}
                               THEN c + 2 ELSE c + 1)
    ELSE c

ScanNumber(s, i) ==
    NumberExp(s, NumberFrac(s, NumberInt(s, IF i <= Len(s) /\ s[i] = "-" THEN i + 1 ELSE i)))

RECURSIVE ScanValue(_, _, _), ScanMembers(_, _, _), ScanElements(_, _, _),
          AfterMember(_, _, _), AfterMemberValue(_, _, _), AfterColon(_, _, _),
          AfterKey(_, _, _), AfterElement(_, _, _), AfterElementValue(_, _, _)

\* d is at what follows a member's value
AfterMember(s, d, strict) ==
    IF d > Len(s) THEN 0
    ELSE IF s[d] = "}" THEN d + 1
    ELSE IF s[d] = "," THEN ScanMembers(s, SkipWs(s, d + 1), strict)
    ELSE 0

AfterMemberValue(s, v, strict) ==
    IF v = 0 THEN 0 ELSE AfterMember(s, SkipWs(s, v), strict)

\* c is at what follows a member's key
AfterColon(s, c, strict) ==
    IF c > Len(s) \/ s[c] # ":" THEN 0
    ELSE AfterMemberValue(s, ScanValue(s, SkipWs(s, c + 1), strict), strict)

AfterKey(s, k, strict) ==
    IF k = 0 THEN 0 ELSE AfterColon(s, SkipWs(s, k), strict)

\* index i is at the opening quote of a member's key
ScanMembers(s, i, strict) ==
    IF i > Len(s) \/ s[i] # "\"" THEN 0
    ELSE AfterKey(s, ScanString(s, i + 1, strict), strict)

\* d is at what follows an array element
AfterElement(s, d, strict) ==
    IF d > Len(s) THEN 0
    ELSE IF s[d] = "]" THEN d + 1
    ELSE IF s[d] = "," THEN ScanElements(s, SkipWs(s, d + 1), strict)
    ELSE 0

AfterElementValue(s, v, strict) ==
    IF v = 0 THEN 0 ELSE AfterElement(s, SkipWs(s, v), strict)

\* index i is at the first character of an array element
ScanElements(s, i, strict) == AfterElementValue(s, ScanValue(s, i, strict), strict)

\* what parses as a number is a number; else the three constants
NumberOrConstant(s, i, n) ==
    IF n # 0 THEN n
    ELSE IF MatchesAt(s, i, <<"N", "a", "N">>) THEN i + 3
    ELSE IF MatchesAt(s, i, <<"I", "n", "f", "i", "n", "i", "t", "y">>) THEN i + 8
    ELSE IF MatchesAt(s, i, <<"-", "I", "n", "f", "i", "n", "i", "t", "y">>) THEN i + 9
    ELSE 0

\* j is just after an opening brace or bracket and the whitespace behind it
OpenObject(s, j, strict) ==
    IF j <= Len(s) /\ s[j] = "}" THEN j + 1 ELSE ScanMembers(s, j, strict)

OpenArray(s, j, strict) ==
    IF j <= Len(s) /\ s[j] = "]" THEN j + 1 ELSE ScanElements(s, j, strict)

ScanValue(s, i, strict) ==
    IF i > Len(s) THEN 0
    ELSE IF s[i] = "\"" THEN ScanString(s, i + 1, strict)
    ELSE IF s[i] = "{" THEN OpenObject(s, SkipWs(s, i + 1), strict)
    ELSE IF s[i] = "[" THEN OpenArray(s, SkipWs(s, i + 1), strict)
    ELSE IF MatchesAt(s, i, <<"n", "u", "l", "l">>) THEN i + 4
    ELSE IF MatchesAt(s, i, <<"t", "r", "u", "e">>) THEN i + 4
    ELSE IF MatchesAt(s, i, <<"f", "a", "l", "s", "e">>) THEN i + 5
    ELSE NumberOrConstant(s, i, ScanNumber(s, i))

\* the value ended before e and only whitespace follows
EndsAt(s, e) == e # 0 /\ SkipWs(s, e) = Len(s) + 1

\* JSONDecoder(strict=strict).decode(s) does not raise
Decodes(s, strict) == EndsAt(s, ScanValue(s, SkipWs(s, 1), strict))

\* json.loads(s) does not raise
JsonLoads(s) == Decodes(s, TRUE)

----------------------------------------------------------------------------
(* utils.py *)

RECURSIVE LStrip(_)
LStrip(s) == IF s # << >> /\ Head(s) \in PyWs THEN LStrip(Tail(s)) ELSE s

RECURSIVE RStrip(_)
RStrip(s) ==
    IF s # << >> /\ s[Len(s)] \in PyWs THEN RStrip(SubSeq(s, 1, Len(s) - 1)) ELSE s

\* str.strip()
Strip(s) == RStrip(LStrip(s))

Fence == <<Char.BT, Char.BT, Char.BT>>

\* (?:json)? under re.IGNORECASE
JsonTagAt(s, i) ==
    /\ i + 3 <= Len(s)
    /\ s[i] \in {"j", "J"}
    /\ s[i + 1] \in {"s", "S"}
    /\ s[i + 2] \in {"o", "O"}
    /\ s[i + 3] \in {"n", "N"}

\* where group(1) starts for an opening fence at p
ContentStart(text, p) == IF JsonTagAt(text, p + 3) THEN p + 7 ELSE p + 3

\* the fences that can close an opening fence at p
Closers(text, p) ==
    {q \in 1..Len(text) : q >= ContentStart(text, p) /\ MatchesAt(text, q, Fence)}

Openers(text) == {p \in 1..Len(text) : MatchesAt(text, p, Fence) /\ Closers(text, p) # {}}

Least(S) == CHOOSE x \in S : \A y \in S : x <= y

\* the match of a greedy (.*): up to the last closing fence
FencedAtLastCloser(text, p) ==
    [found |-> TRUE,
     group1 |-> Slice(text, ContentStart(text, p),
                      (CHOOSE q \in Closers(text, p) : \A r \in Closers(text, p) : r <= q) - 1)]

FencedAt(text, p) ==
    [found |-> TRUE,
     group1 |-> Slice(text, ContentStart(text, p), Least(Closers(text, p)) - 1)]

\* _JSON_BLOCK_RE.search(text): the leftmost opening fence that a later fence
\* closes; group(1) is what lies between (after an optional "json" tag) and the
\* nearest closing fence.  found = FALSE when the regex does not match.
FencedMatch(text) ==
    IF Openers(text) = {} THEN [found |-> FALSE, group1 |-> << >>]
    ELSE FencedAt(text, Least(Openers(text)))

\* str.find / str.rfind of one character, 1-based; 0 when absent
Find(s, ch) ==
    IF \E i \in 1..Len(s) : s[i] = ch
    THEN CHOOSE i \in 1..Len(s) : s[i] = ch /\ \A j \in 1..(i - 1) : s[j] # ch
    ELSE 0

\* a search for the closing brace that stops at the first one
RFindNearest(s, ch) == Find(s, ch)

RFind(s, ch) ==
    IF \E i \in 1..Len(s) : s[i] = ch
    THEN CHOOSE i \in 1..Len(s) : s[i] = ch /\ \A j \in (i + 1)..Len(s) : s[j] # ch
    ELSE 0

\* index of the first character at or after i that is not \s
RECURSIVE SkipPyWs(_, _)
SkipPyWs(s, i) ==
    IF i <= Len(s) /\ s[i] \in PyWs THEN SkipPyWs(s, i + 1) ELSE i

\* the pattern ,(\s*[}\]]) matches at the comma at i
TrailingComma(s, i) ==
    /\ s[i] = ","
    /\ SkipPyWs(s, i + 1) <= Len(s)
    /\ s[SkipPyWs(s, i + 1)] \in {"}", "]"}

\* re.sub(r',(\s*[}\]])', r'\1', json_str) on s[lo..hi]: a match holds one
\* comma, its first character, so matches never overlap and every comma the
\* pattern matches at is deleted; the text is put together by halves
RECURSIVE RemoveTrailingCommasFrom(_, _, _)
RemoveTrailingCommasFrom(s, lo, hi) ==
    IF lo > hi THEN << >>
    ELSE IF lo = hi THEN (IF TrailingComma(s, lo) THEN << >> ELSE <<s[lo]>>)
    ELSE RemoveTrailingCommasFrom(s, lo, (lo + hi) \div 2)
         \o RemoveTrailingCommasFrom(s, (lo + hi) \div 2 + 1, hi)

\* a comma pass that removes nothing
CommasKept(s) == s

RemoveTrailingCommas(s) == RemoveTrailingCommasFrom(s, 1, Len(s))

\* a set of escape characters that takes a digit for one
EscapeCharsWithDigit == {"\"", "\\", "b", "f", "n", "r", "t", "/", "1"}

VALID_ESCAPE_CHARS == {"\"", "\\", "b", "f", "n", "r", "t", "/"}

\* CONTROL_CHAR_MAP, and f'\\u{ord(char):04x}' for the other control characters
EscapeControl(ch) ==
    CASE ch = "\n" -> <<"\\", "n">>
      [] ch = "\r" -> <<"\\", "r">>
      [] ch = "\t" -> <<"\\", "t">>
      [] ch = Char.BS   -> <<"\\", "b">>
      [] ch = "\f" -> <<"\\", "f">>
      [] ch = Char.VT   -> <<"\\", "u", "0", "0", "0", "b">>
      [] ch = Char.US   -> <<"\\", "u", "0", "0", "1", "f">>

\* number of backslashes that end result
RECURSIVE TrailingBackslashes(_)
TrailingBackslashes(result) ==
    IF result # << >> /\ result[Len(result)] = "\\"
    THEN 1 + TrailingBackslashes(SubSeq(result, 1, Len(result) - 1))
    ELSE 0

\* a backslash inside a string, at i: how far the loop advances and what it
\* appends (a \u escape with four hex digits and a valid two-character escape
\* are kept, any other backslash is doubled)
BackslashStep(fixed, i) ==
    IF /\ i + 5 <= Len(fixed)
       /\ fixed[i + 1] = "u"
       /\ \A k \in 2..5 : fixed[i + k] \in HexDigits
    THEN [i |-> i + 6, out |-> SubSeq(fixed, i, i + 5)]
    ELSE IF /\ i + 1 <= Len(fixed)
            /\ fixed[i + 1] # "u"
            /\ fixed[i + 1] \in VALID_ESCAPE_CHARS
    THEN [i |-> i + 2, out |-> <<fixed[i], fixed[i + 1]>>]
    ELSE [i |-> i + 1, out |-> <<"\\", "\\">>]

\* one pass of the character loop of step 3 at read position i: the next read
\* position, what is appended to result, and the scanner's state
EscapeStep(fixed, i, result, in_string) ==
    CASE fixed[i] = "\"" ->
             [i |-> i + 1, out |-> <<fixed[i]>>,
              in_string |-> IF TrailingBackslashes(result) % 2 = 0 THEN ~in_string
                            ELSE in_string]
      [] fixed[i] # "\"" /\ in_string /\ fixed[i] \in ControlChars ->
             [i |-> i + 1, out |-> EscapeControl(fixed[i]), in_string |-> in_string]
      [] fixed[i] = "\\" /\ in_string ->
             [i |-> BackslashStep(fixed, i).i, out |-> BackslashStep(fixed, i).out,
              in_string |-> in_string]
      [] OTHER -> [i |-> i + 1, out |-> <<fixed[i]>>, in_string |-> in_string]

\* the character loop of step 3: i is the read position in fixed, result the
\* output so far, in_string the scanner's state
RECURSIVE EscapeScan(_, _, _, _)
EscapeScan(fixed, i, result, in_string) ==
    IF i > Len(fixed) THEN result
    ELSE EscapeScan(fixed, EscapeStep(fixed, i, result, in_string).i,
                    result \o EscapeStep(fixed, i, result, in_string).out,
                    EscapeStep(fixed, i, result, in_string).in_string)

\* the character loop entered with in_string set
EscapeStartingInString(fixed) == EscapeScan(fixed, 1, << >>, TRUE)

EscapeInStrings(fixed) == EscapeScan(fixed, 1, << >>, FALSE)

\* _fix_json_string from the strict re-parse on
FixReparse(fixed) ==
    IF JsonLoads(fixed) THEN [text |-> fixed, step |-> 3]
    ELSE IF Decodes(fixed, FALSE) THEN [text |-> fixed, step |-> 4]
    ELSE [text |-> fixed, step |-> 5]

\* _fix_json_string after the comma pass
FixAfterCommas(fixed) ==
    IF JsonLoads(fixed) THEN [text |-> fixed, step |-> 2]
    ELSE FixReparse(EscapeInStrings(fixed))

\* _fix_json_string that goes to the comma pass without trying the text first
FixJsonStringWithoutStep1(json_str) == FixAfterCommas(RemoveTrailingCommas(json_str))

\* _fix_json_string: text is the returned string, step the return statement
\* that produced it (1 as-is, 2 after the comma pass, 3 after the character
\* pass, 4 after the lenient decode, 5 the best-effort return)
FixJsonString(json_str) ==
    IF JsonLoads(json_str) THEN [text |-> json_str, step |-> 1]
    ELSE FixAfterCommas(RemoveTrailingCommas(json_str))

\* the text extract_json_object works on after the fenced-block step:
\* group(1) stripped when the regex matches the stripped payload
WorkingText(p) ==
    IF FencedMatch(Strip(p)).found THEN Strip(FencedMatch(Strip(p)).group1) ELSE Strip(p)

\* text[start : end + 1]
Candidate(text) == SubSeq(text, Find(text, "{"), RFind(text, "}"))

\* a final step that hands back whatever _fix_json_string returned
ReturnedAsIs(json_str) == [raised |-> "", value |-> json_str]

\* the final json.loads of extract_json_object
Validated(json_str) ==
    IF JsonLoads(json_str)
    THEN [raised |-> "", value |-> json_str]
    ELSE [raised |-> "parse", value |-> << >>]

\* extract_json_object without its final validation
BoundedUnvalidated(text, start, end) ==
    IF start = 0 \/ end = 0 \/ end <= start
    THEN [raised |-> "boundaries", value |-> << >>]
    ELSE [raised |-> "", value |-> FixJsonString(SubSeq(text, start, end)).text]

Bounded(text, start, end) ==
    IF start = 0 \/ end = 0 \/ end <= start
    THEN [raised |-> "boundaries", value |-> << >>]
    ELSE Validated(FixJsonString(SubSeq(text, start, end)).text)

Located(text) == Bounded(text, Find(text, "{"), RFind(text, "}"))

\* extract_json_object: raised names the ValueError ("" when it returns)
ExtractJsonObject(p) ==
    IF p = << >> THEN [raised |-> "empty", value |-> << >>]
    ELSE Located(WorkingText(p))

----------------------------------------------------------------------------
(* schemas.py: what model_validate_json accepts.  A field is named by the  *)
(* characters of its name; kind is the declared type, required whether     *)
(* the field has no default.                                               *)

MarketingStrategy ==
    {
        [name |-> <<"t", "o", "p", "i", "c">>,
         kind |-> "str", required |-> TRUE],
        [name |-> <<"u", "s", "e", "r", "_", "i", "n", "t", "e", "n", "t">>,
         kind |-> "str", required |-> FALSE],
        [name |-> <<"o", "u", "t", "p", "u", "t", "_", "l", "a", "n", "g", "u", "a", "g", "e">>,
         kind |-> "str", required |-> FALSE],
        [name |-> <<"t", "a", "r", "g", "e", "t", "_", "a", "u", "d", "i", "e", "n", "c", "e">>,
         kind |-> "str", required |-> TRUE],
        [name |-> <<"p", "a", "i", "n", "_", "p", "o", "i", "n", "t", "s">>,
         kind |-> "list", required |-> FALSE],
        [name |-> <<"s", "e", "l", "l", "i", "n", "g", "_", "p", "o", "i", "n", "t", "s">>,
         kind |-> "list", required |-> FALSE],
        [name |-> <<"c", "o", "n", "t", "e", "n", "t", "_", "f", "r", "a", "m", "e", "w",
                  "o", "r", "k">>,
         kind |-> "list", required |-> FALSE],
        [name |-> <<"t", "o", "n", "e", "_", "o", "f", "_", "v", "o", "i", "c", "e">>,
         kind |-> "str", required |-> TRUE],
        [name |-> <<"b", "r", "a", "n", "d", "_", "p", "i", "l", "l", "a", "r", "s">>,
         kind |-> "list", required |-> FALSE],
        [name |-> <<"k", "e", "y", "w", "o", "r", "d", "s">>,
         kind |-> "list", required |-> FALSE]
    }

CopywritingContent ==
    {
        [name |-> <<"h", "e", "r", "o", "_", "m", "e", "s", "s", "a", "g", "e">>,
         kind |-> "str", required |-> TRUE],
        [name |-> <<"s", "o", "c", "i", "a", "l", "_", "p", "o", "s", "t", "s">>,
         kind |-> "list", required |-> FALSE],
        [name |-> <<"b", "l", "o", "g", "_", "o", "u", "t", "l", "i", "n", "e">>,
         kind |-> "list", required |-> FALSE],
        [name |-> <<"b", "l", "o", "g", "_", "a", "r", "t", "i", "c", "l", "e">>,
         kind |-> "str", required |-> TRUE],
        [name |-> <<"p", "a", "i", "n", "_", "p", "o", "i", "n", "t", "_", "a", "n", "a",
                  "l", "y", "s", "i", "s">>,
         kind |-> "list", required |-> FALSE],
        [name |-> <<"c", "t", "a", "_", "v", "a", "r", "i", "a", "t", "i", "o", "n", "s">>,
         kind |-> "list", required |-> FALSE]
    }

ImageContent ==
    {
        [name |-> <<"p", "r", "o", "m", "p", "t", "s">>,
         kind |-> "list", required |-> FALSE],
        [name |-> <<"a", "s", "s", "e", "t", "s">>,
         kind |-> "list", required |-> FALSE]
    }

VideoScript ==
    {
        [name |-> <<"s", "t", "r", "u", "c", "t", "u", "r", "e", "_", "n", "o", "t", "e", "s">>,
         kind |-> "list", required |-> FALSE],
        [name |-> <<"s", "c", "e", "n", "e", "s">>,
         kind |-> "list", required |-> FALSE],
        [name |-> <<"t", "o", "t", "a", "l", "_", "d", "u", "r", "a", "t", "i", "o", "n",
                  "_", "s", "e", "c", "o", "n", "d", "s">>,
         kind |-> "int", required |-> FALSE],
        [name |-> <<"c", "t", "a">>,
         kind |-> "str", required |-> FALSE],
        [name |-> <<"s", "r", "t", "_", "c", "a", "p", "t", "i", "o", "n">>,
         kind |-> "str", required |-> FALSE]
    }

RECURSIVE MembersFrom(_, _)

\* the member whose key ends before k and whose value is s[vs..ve-1], and
\* the members after it
MemberAndRest(s, i, k, vs, ve) ==
    <<[key |-> Slice(s, i + 1, k - 2), value |-> Slice(s, vs, ve - 1)]>>
    \o (IF SkipWs(s, ve) <= Len(s) /\ s[SkipWs(s, ve)] = ","
        THEN MembersFrom(s, SkipWs(s, SkipWs(s, ve) + 1))
        ELSE << >>)

MemberValueAt(s, i, k, vs) == MemberAndRest(s, i, k, vs, ScanValue(s, vs, TRUE))

MemberKeyAt(s, i, k) == MemberValueAt(s, i, k, SkipWs(s, SkipWs(s, k) + 1))

\* the members of the object that starts at s[1], for a text json.loads
\* accepts: key is the text between the key's quotes, value the member's text
MembersFrom(s, i) ==
    IF i > Len(s) \/ s[i] # "\"" THEN << >>
    ELSE MemberKeyAt(s, i, ScanString(s, i + 1, TRUE))

ObjectMembers(s) == MembersFrom(s, SkipWs(s, SkipWs(s, 1) + 1))

\* whether a member's text is acceptable for a field of the declared kind
\* (what the elements of a list hold is not looked at)
ValueFits(kind, v) ==
    CASE kind = "str"  -> v[1] = "\""
      [] kind = "list" -> v[1] = "["
      [] kind = "int"  -> v[1] \in Digits \cup {"-"}

\* the text of a JSON string literal between its quotes, with the escapes
\* that stand for one character undone (\uXXXX is kept as written)
RECURSIVE Unescape(_)
Unescape(body) ==
    IF body = << >> THEN << >>
    ELSE IF body[1] = "\\" /\ Len(body) >= 2 /\ body[2] # "u" THEN
        <<CASE body[2] = "n" -> "\n"
            [] body[2] = "r" -> "\r"
            [] body[2] = "t" -> "\t"
            [] body[2] = "f" -> "\f"
            [] body[2] = "b" -> Char.BS
            [] OTHER -> body[2]>> \o Unescape(SubSeq(body, 3, Len(body)))
    ELSE <<body[1]>> \o Unescape(Tail(body))

UpperLetters == <<"A", "B", "C", "D", "E", "F", "G", "H", "I", "J", "K", "L", "M", "N",
    "O", "P", "Q", "R", "S", "T", "U", "V", "W", "X", "Y", "Z">>

LowerLetters == <<"a", "b", "c", "d", "e", "f", "g", "h", "i", "j", "k", "l", "m", "n",
    "o", "p", "q", "r", "s", "t", "u", "v", "w", "x", "y", "z">>

\* str.lower() on one character
Lower(ch) ==
    IF \E i \in 1..26 : UpperLetters[i] = ch
    THEN LowerLetters[CHOOSE i \in 1..26 : UpperLetters[i] = ch]
    ELSE ch

\* what _NON_ALNUM_RE does not match: with re.IGNORECASE the class [a-z]
\* of a str pattern also takes the letters whose case folding is an ASCII
\* letter
IsAlnum(ch) ==
    \/ ch \in Digits
    \/ \E i \in 1..26 : LowerLetters[i] = ch \/ UpperLetters[i] = ch
    \/ ch \in {Char.LONG_S, Char.DOTLESS_I}

\* _NON_ALNUM_RE.sub("-", value): every maximal run becomes one hyphen
\* (what the character at i leaves: itself, or the hyphen of the run it
\* starts, or nothing; s[lo..hi] is put together by halves)
HyphenateAt(s, i) ==
    IF IsAlnum(s[i]) THEN <<s[i]>>
    ELSE IF i > 1 /\ ~IsAlnum(s[i - 1]) THEN << >>
    ELSE <<"-">>

RECURSIVE HyphenateFrom(_, _, _)
HyphenateFrom(s, lo, hi) ==
    IF lo > hi THEN << >>
    ELSE IF lo = hi THEN HyphenateAt(s, lo)
    ELSE HyphenateFrom(s, lo, (lo + hi) \div 2) \o HyphenateFrom(s, (lo + hi) \div 2 + 1, hi)

RECURSIVE StripHyphens(_)
StripHyphens(s) ==
    IF s # << >> /\ s[1] = "-" THEN StripHyphens(Tail(s))
    ELSE IF s # << >> /\ s[Len(s)] = "-" THEN StripHyphens(SubSeq(s, 1, Len(s) - 1))
    ELSE s

max_length == 60

\* slugify(value)
Slugify(value) ==
    LET stripped == Strip(value)
        value_ascii == [i \in 1..Len(stripped) |-> Lower(stripped[i])]
        slug == StripHyphens(HyphenateFrom(value_ascii, 1, Len(value_ascii)))
        named == IF slug = << >>
                 THEN <<"c", "a", "m", "p", "a", "i", "g", "n">> ELSE slug
    IN  SubSeq(named, 1, IF Len(named) < max_length THEN Len(named) ELSE max_length)

----------------------------------------------------------------------------
(* json.dumps / model_dump_json: a dict is the sequence of its members,    *)
(* each value kept as JSON text (a value parsed from a generator's text    *)
(* keeps the generator's spacing)                                          *)

\* one character inside a string literal
EscapeChar(ch) ==
    IF ch \in {"\"", "\\"} THEN <<"\\", ch>>
    ELSE IF ch \in ControlChars THEN EscapeControl(ch)
    ELSE <<ch>>

\* the characters of t[lo..hi], each escaped, put together by halves
RECURSIVE EscapeCharsFrom(_, _, _)
EscapeCharsFrom(t, lo, hi) ==
    IF lo > hi THEN << >>
    ELSE IF lo = hi THEN EscapeChar(t[lo])
    ELSE EscapeCharsFrom(t, lo, (lo + hi) \div 2) \o EscapeCharsFrom(t, (lo + hi) \div 2 + 1, hi)

EscapeChars(t) == EscapeCharsFrom(t, 1, Len(t))

\* json.dumps(text, ensure_ascii=False) of a str
JsonString(t) == <<"\"">> \o EscapeChars(t) \o <<"\"">>

\* a one-element list of str as indent=2 writes it for a member of the
\* top-level object
JsonList1(t) ==
    <<"[", "\n", " ", " ", " ", " ">> \o JsonString(t) \o <<"\n", " ", " ", "]">>

Member(key, value) == [key |-> key, value |-> value]

HasKey(dict, key) == \E i \in 1..Len(dict) : dict[i].key = key

Get(dict, key) ==
    dict[CHOOSE i \in 1..Len(dict) :
            dict[i].key = key /\ \A j \in (i + 1)..Len(dict) : dict[j].key # key].value

RECURSIVE DumpMembers(_)
DumpMembers(dict) ==
    IF dict = << >> THEN << >>
    ELSE <<"\n", " ", " ">> \o JsonString(dict[1].key) \o <<":", " ">> \o dict[1].value
         \o (IF Len(dict) > 1 THEN <<",">> ELSE <<"\n">>) \o DumpMembers(Tail(dict))

\* json.dumps(dict, indent=2)
JsonDumps(dict) == IF dict = << >> THEN <<"{", "}">> ELSE <<"{">> \o DumpMembers(dict) \o <<"}">>

\* model_cls.model_validate(dict) does not raise
DictValidates(model_cls, dict) ==
    \A f \in model_cls :
        IF HasKey(dict, f.name) THEN ValueFits(f.kind, Get(dict, f.name)) ELSE ~f.required

\* model_cls.model_validate_json(json_text) does not raise: fields without a
\* default are present, declared fields hold their kind, others are ignored
ModelValidates(model_cls, json_text) ==
    /\ JsonLoads(json_text)
    /\ json_text[SkipWs(json_text, 1)] = "{"
    /\ DictValidates(model_cls, ObjectMembers(json_text))

\* the str a validated record holds for a string member
StringField(json_text, key) ==
    LET v == Get(ObjectMembers(json_text), key) IN Unescape(Slice(v, 2, Len(v) - 1))

\* the names of MarketingStrategy's fields
Field ==
    [topic |-> <<"t", "o", "p", "i", "c">>,
     user_intent |-> <<"u", "s", "e", "r", "_", "i", "n", "t", "e", "n", "t">>,
     output_language |-> <<"o", "u", "t", "p", "u", "t", "_", "l", "a", "n", "g", "u", "a",
         "g", "e">>,
     target_audience |-> <<"t", "a", "r", "g", "e", "t", "_", "a", "u", "d", "i", "e", "n",
         "c", "e">>,
     pain_points |-> <<"p", "a", "i", "n", "_", "p", "o", "i", "n", "t", "s">>,
     selling_points |-> <<"s", "e", "l", "l", "i", "n", "g", "_", "p", "o", "i", "n", "t",
         "s">>,
     content_framework |-> <<"c", "o", "n", "t", "e", "n", "t", "_", "f", "r", "a", "m", "e",
         "w", "o", "r", "k">>,
     tone_of_voice |-> <<"t", "o", "n", "e", "_", "o", "f", "_", "v", "o", "i", "c", "e">>,
     brand_pillars |-> <<"b", "r", "a", "n", "d", "_", "p", "i", "l", "l", "a", "r", "s">>,
     keywords |-> <<"k", "e", "y", "w", "o", "r", "d", "s">>]

\* MarketingStrategy's fields in declaration order, with the JSON text of
\* their defaults
StrategyFieldOrder ==
    <<Member(Field.topic, << >>), Member(Field.user_intent, <<"\"", "\"">>),
      Member(Field.output_language, <<"\"", "e", "n", "\"">>),
      Member(Field.target_audience, << >>), Member(Field.pain_points, <<"[", "]">>),
      Member(Field.selling_points, <<"[", "]">>), Member(Field.content_framework, <<"[", "]">>),
      Member(Field.tone_of_voice, << >>), Member(Field.brand_pillars, <<"[", "]">>),
      Member(Field.keywords, <<"[", "]">>)>>

\* MarketingStrategy.model_validate(dict).model_dump_json(indent=2)
DumpStrategy(dict) ==
    JsonDumps([i \in 1..Len(StrategyFieldOrder) |->
        Member(StrategyFieldOrder[i].key,
               IF HasKey(dict, StrategyFieldOrder[i].key)
               THEN Get(dict, StrategyFieldOrder[i].key)
               ELSE StrategyFieldOrder[i].value)])

----------------------------------------------------------------------------
(* research.py: DeepResearchExecutor *)

\* _detect_language: the first character of a CJK script decides
RECURSIVE DetectLanguage(_)
DetectLanguage(text) ==
    IF text = << >> THEN <<"e", "n">>
    ELSE IF text[1] = Char.HAN THEN <<"z", "h">>
    ELSE IF text[1] = Char.KANA THEN <<"j", "a">>
    ELSE IF text[1] = Char.HANGUL THEN <<"k", "o">>
    ELSE DetectLanguage(Tail(text))

\* _extract_topic (both executors): the stripped text of the first user
\* message that has text
ExtractTopic(conversation) ==
    IF \E i \in 1..Len(conversation) :
           conversation[i].role = "user" /\ conversation[i].text # << >>
    THEN LET i == CHOOSE x \in 1..Len(conversation) :
                      /\ conversation[x].role = "user" /\ conversation[x].text # << >>
                      /\ \A y \in 1..(x - 1) :
                            ~(conversation[y].role = "user" /\ conversation[y].text # << >>)
         IN  [raised |-> "", value |-> Strip(conversation[i].text)]
    ELSE [raised |-> "User topic not found", value |-> << >>]

\* a fallback plan without dimensions
RunPlanningEmptyDefault(topic, plan_text) ==
    IF ExtractJsonObject(plan_text).raised = ""
    THEN [source |-> "planner", dimensions |-> << >>]
    ELSE [source |-> "default", dimensions |-> << >>]

\* _run_planning: the planner's plan, or the fixed three dimensions
RunPlanning(topic, plan_text) ==
    IF ExtractJsonObject(plan_text).raised = ""
    THEN [source |-> "planner", dimensions |-> << >>]
    ELSE [source |-> "default",
          dimensions |-> <<"Market Trends", "Target Users", "Competitive Landscape">>]

\* _run_research: the researcher's findings, or the empty envelope
RunResearch(topic, plan, findings_text) ==
    IF ExtractJsonObject(findings_text).raised = ""
    THEN [source |-> "researcher", plan |-> plan.source,
          envelope |-> ObjectMembers(ExtractJsonObject(findings_text).value)]
    ELSE [source |-> "default", plan |-> plan.source,
          envelope |-> [research_findings |-> << >>,
                        market_overview |-> <<"R", "e", "s", "e", "a", "r", "c", "h", " ",
                                              "o", "n", " ">> \o topic,
                        competitive_landscape |-> "To be analyzed",
                        opportunity_areas |-> << >>]]

\* the dictionary _run_analysis returns when the analyst's text does not parse
MinimalStrategy(topic) ==
    <<Member(Field.topic, JsonString(topic)),
      Member(Field.output_language, JsonString(DetectLanguage(topic))),
      Member(Field.target_audience, JsonString(<<"T", "o", " ", "b", "e", " ", "a", "n", "a", "l", "y", "z", "e", "d">>)),
      Member(Field.pain_points, JsonList1(<<"P", "a", "i", "n", " ", "p", "o", "i", "n", "t", "s", " ", "t", "o",
        " ", "b", "e", " ", "r", "e", "s", "e", "a", "r", "c", "h", "e", "d">>)),
      Member(Field.selling_points, JsonList1(<<"S", "e", "l", "l", "i", "n", "g", " ", "p", "o", "i", "n", "t", "s",
        " ", "t", "o", " ", "b", "e", " ", "d", "e", "f", "i", "n", "e", "d">>)),
      Member(Field.content_framework, JsonList1(<<"C", "o", "n", "t", "e", "n", "t", " ", "f", "r", "a", "m", "e", "w",
        "o", "r", "k", " ", "t", "o", " ", "b", "e", " ", "d", "e", "s",
        "i", "g", "n", "e", "d">>)),
      Member(Field.tone_of_voice, JsonString(<<"P", "r", "o", "f", "e", "s", "s", "i", "o", "n", "a", "l", ",", " ",
        "t", "r", "u", "s", "t", "w", "o", "r", "t", "h", "y">>)),
      Member(Field.brand_pillars, JsonList1(<<"B", "r", "a", "n", "d", " ", "p", "i", "l", "l", "a", "r", "s", " ",
        "t", "o", " ", "b", "e", " ", "d", "e", "t", "e", "r", "m", "i",
        "n", "e", "d">>)),
      Member(Field.keywords, JsonList1(topic))>>

\* the two members _run_analysis adds to a parsed record that lacks them
WithDefaults(topic, parsed) ==
    parsed
    \o (IF HasKey(parsed, Field.topic) THEN << >> ELSE <<Member(Field.topic, JsonString(topic))>>)
    \o (IF HasKey(parsed, Field.output_language) THEN << >>
        ELSE <<Member(Field.output_language, JsonString(DetectLanguage(topic)))>>)

\* _run_analysis after extract_json_object returned or raised
Analysed(topic, x) ==
    IF x.raised = "" THEN WithDefaults(topic, ObjectMembers(x.value))
    ELSE MinimalStrategy(topic)

\* _run_analysis
RunAnalysis(topic, strategy_text) == Analysed(topic, ExtractJsonObject(strategy_text))

\* what handle did with its three agents, in the order of its awaits: per
\* phase the agent's reply, the plan and the findings handed to the phase
\* (by their source) and what the phase returned
PhaseLog(topic, plan_text, findings_text, strategy_text) ==
    <<[phase |-> "plan", reply |-> plan_text, plan |-> "none", findings |-> "none",
       result |-> RunPlanning(topic, plan_text)],
      [phase |-> "research", reply |-> findings_text,
       plan |-> RunPlanning(topic, plan_text).source, findings |-> "none",
       result |-> RunResearch(topic, RunPlanning(topic, plan_text), findings_text)],
      [phase |-> "synthesis", reply |-> strategy_text,
       plan |-> RunPlanning(topic, plan_text).source,
       findings |-> RunResearch(topic, RunPlanning(topic, plan_text), findings_text).source,
       result |-> RunAnalysis(topic, strategy_text)]>>

\* the text handle publishes: the validated model's dump, or the raw dump
\* when validation fails
StrategyOutputText(strategy_json) ==
    IF DictValidates(MarketingStrategy, strategy_json)
    THEN DumpStrategy(strategy_json)
    ELSE JsonDumps(strategy_json)

----------------------------------------------------------------------------
(* tools.py: SoraVideoGenerationTools *)

NumCallers == 2

Callers == 1..NumCallers
NoCaller == 0
ToolInstances == {"sora_a", "sora_b"}
NoTool == "no tool"

\* durations the callers ask for
\* the seconds argument: the default where calls run side by side, a range
\* around the supported values where one call runs alone
RequestedSeconds == {5}
AnySeconds == (-3)..19

NoSeconds == [asked |-> 0, sent |-> 0]

max_wait_time == 300
poll_interval == 5

\* min(valid_seconds, key=lambda x: abs(x - seconds)) over [4, 8, 12]: the
\* first of the list among the nearest
SnapSecondsLastNearest(s) ==
    LET valid_seconds == <<4, 8, 12>>
        Abs(x) == IF x < 0 THEN 0 - x ELSE x
        Best(i) == \A j \in 1..3 : Abs(valid_seconds[i] - s) <= Abs(valid_seconds[j] - s)
        i == CHOOSE x \in 1..3 : Best(x) /\ \A y \in (x + 1)..3 : ~Best(y)
    IN  valid_seconds[i]

SnapSeconds(s) ==
    LET valid_seconds == <<4, 8, 12>>
        Abs(x) == IF x < 0 THEN 0 - x ELSE x
        Best(i) == \A j \in 1..3 : Abs(valid_seconds[i] - s) <= Abs(valid_seconds[j] - s)
        i == CHOOSE x \in 1..3 : Best(x) /\ \A y \in 1..(x - 1) : ~Best(y)
    IN  valid_seconds[i]

Pending == [status |-> "pending", error |-> "", video_id |-> FALSE,
            url |-> "None", local_path |-> "None", duration_seconds |-> 0]

\* a RuntimeError or a remote call's exception leaving _do_generate_video
Raised(what) == [Pending EXCEPT !.status = "raised", !.error = what]

\* the dictionaries returned with an "error" key
ErrorDescriptor(msg, has_id) ==
    [Pending EXCEPT !.status = "returned", !.error = msg, !.video_id = has_id]

\* the dictionary returned after the content fetch
ResultDescriptor(url, local_path, secs) ==
    [status |-> "returned", error |-> "", video_id |-> TRUE,
     url |-> url, local_path |-> local_path, duration_seconds |-> secs]

\* the states of a call between the acquisition and the release of the lock
CriticalSection == {"post", "poll", "fetch"}

InitVideo ==
    /\ output_dir = [t \in ToolInstances |-> FALSE]
    /\ credentials \in {[t \in ToolInstances |-> TRUE],
                        [t \in ToolInstances |-> t = "sora_a"]}
    /\ lockHolder = NoCaller
    /\ pc = [c \in Callers |-> "idle"]
    /\ tool = [c \in Callers |-> NoTool]
    /\ seconds = [c \in Callers |-> NoSeconds]
    /\ elapsed = [c \in Callers |-> 0]
    /\ checks = [c \in Callers |-> 0]
    /\ outcome = [c \in Callers |-> Pending]
    /\ cause = [c \in Callers |-> "none"]
    /\ generated_videos = [t \in ToolInstances |-> << >>]

\* set_output_dir
SetOutputDir(t) ==
    /\ ~output_dir[t]
    /\ output_dir' = [output_dir EXCEPT ![t] = TRUE]
    /\ UNCHANGED <<credentials, lockHolder, pc, tool, seconds, elapsed, checks,
                   outcome, cause, generated_videos>>
    /\ UNCHANGED <<extractVars, runVars, toolVars>>

\* a call leaves _do_generate_video with result r; its locals are gone
Leave(c, r) ==
    /\ pc' = [pc EXCEPT ![c] = "done"]
    /\ outcome' = [outcome EXCEPT ![c] = r]
    /\ seconds' = [seconds EXCEPT ![c] = NoSeconds]
    /\ elapsed' = [elapsed EXCEPT ![c] = 0]
    /\ checks' = [checks EXCEPT ![c] = 0]
    /\ tool' = [tool EXCEPT ![c] = NoTool]

\* a way out of the critical section that keeps the lock
LockKept(c) == UNCHANGED lockHolder

\* the with-statement's exit
Release(c) == lockHolder' = IF lockHolder = c THEN NoCaller ELSE lockHolder

\* generate_video is called on instance t: the checks and the snapping that
\* come before the lock
StartCall(c, t, s) ==
    /\ pc[c] = "idle"
    /\ IF ~output_dir[t]
       THEN Leave(c, Raised("output directory not set"))
       ELSE IF ~credentials[t]
       THEN Leave(c, Raised("credentials not configured"))
       ELSE /\ tool' = [tool EXCEPT ![c] = t]
            /\ seconds' = [seconds EXCEPT ![c] = [asked |-> s, sent |-> SnapSeconds(s)]]
            /\ pc' = [pc EXCEPT ![c] = "locking"]
            /\ UNCHANGED <<outcome, elapsed, checks>>
    /\ UNCHANGED <<output_dir, credentials, lockHolder, cause, generated_videos>>
    /\ UNCHANGED <<extractVars, runVars, toolVars>>

\* a lock per instance: free for a caller whose instance differs from the
\* holder's
LockAvailablePerInstance(c) ==
    IF lockHolder = NoCaller THEN TRUE ELSE tool[lockHolder] # tool[c]

\* threading.Lock: one lock for the class, so for every instance
LockAvailable(c) == lockHolder = NoCaller

\* with SoraVideoGenerationTools._generation_lock:
Acquire(c) ==
    /\ pc[c] = "locking"
    /\ LockAvailable(c)
    /\ lockHolder' = c
    /\ pc' = [pc EXCEPT ![c] = "post"]
    /\ UNCHANGED <<output_dir, credentials, tool, seconds, elapsed, checks, outcome,
                   cause, generated_videos>>
    /\ UNCHANGED <<extractVars, runVars, toolVars>>

\* what the creation request, one status request, and the content request
\* with the download after it can do
VideoReplies ==
    [post |-> {"created", "no id", "not 200", "exception"},
     poll |-> {"completed", "failed", "processing", "not 200", "exception"},
     fetch |-> {"exception", "not 200", "video bytes",
                "json url, download ok", "json url, download refused",
                "json url, download raises", "json without url",
                "text url, download ok", "text url, download refused",
                "text url, download raises", "other text"}]

\* requests.post(...) and what follows up to the polling loop
Post(c, reply) ==
    /\ pc[c] = "post"
    /\ CASE reply = "created" ->
              /\ pc' = [pc EXCEPT ![c] = "poll"]
              /\ elapsed' = [elapsed EXCEPT ![c] = 0]
              /\ checks' = [checks EXCEPT ![c] = 0]
              /\ UNCHANGED <<outcome, cause, lockHolder, seconds, tool>>
         [] reply = "no id" ->
              /\ Leave(c, ErrorDescriptor("No video ID returned from API", FALSE))
              /\ cause' = [cause EXCEPT ![c] = "creation"]
              /\ Release(c)
         [] reply = "not 200" ->
              /\ Leave(c, ErrorDescriptor("API error", FALSE))
              /\ cause' = [cause EXCEPT ![c] = "creation"]
              /\ Release(c)
         [] reply = "exception" ->
              /\ Leave(c, Raised("exception in requests.post"))
              /\ cause' = [cause EXCEPT ![c] = "creation"]
              /\ Release(c)
    /\ UNCHANGED <<output_dir, credentials, generated_videos>>
    /\ UNCHANGED <<extractVars, runVars, toolVars>>

\* a loop test that lets the counter reach the budget before it stops
WaitExhaustedLate(e) == e > max_wait_time

\* the test `elapsed < max_wait_time` of the while statement, negated, and
\* the test `elapsed >= max_wait_time` after the loop
WaitExhausted(e) == e >= max_wait_time

\* one pass of the polling loop: one status request, and for a job still
\* processing the sleep, the increment and the loop's exit test
Poll(c, reply) ==
    /\ pc[c] = "poll"
    /\ ~WaitExhausted(elapsed[c])
    /\ CASE reply = "completed" ->
              /\ pc' = [pc EXCEPT ![c] = "fetch"]
              /\ checks' = [checks EXCEPT ![c] = @ + 1]
              /\ UNCHANGED <<outcome, cause, lockHolder, elapsed, seconds, tool>>
         [] reply = "failed" ->
              /\ Leave(c, ErrorDescriptor("Video generation failed", TRUE))
              /\ cause' = [cause EXCEPT ![c] = "terminal failure"]
              /\ Release(c)
         [] reply = "not 200" ->
              /\ Leave(c, ErrorDescriptor("Status check failed", TRUE))
              /\ cause' = [cause EXCEPT ![c] = "status check"]
              /\ Release(c)
         [] reply = "exception" ->
              /\ Leave(c, Raised("exception in requests.get"))
              /\ cause' = [cause EXCEPT ![c] = "status check"]
              /\ Release(c)
         [] reply = "processing" ->
              IF WaitExhausted(elapsed[c] + poll_interval)
              THEN /\ Leave(c, ErrorDescriptor("Video generation timed out", TRUE))
                   /\ cause' = [cause EXCEPT ![c] = "wait budget"]
                   /\ Release(c)
              ELSE /\ elapsed' = [elapsed EXCEPT ![c] = elapsed[c] + poll_interval]
                   /\ checks' = [checks EXCEPT ![c] = @ + 1]
                   /\ UNCHANGED <<pc, outcome, cause, lockHolder, seconds, tool>>
    /\ UNCHANGED <<output_dir, credentials, generated_videos>>
    /\ UNCHANGED <<extractVars, runVars, toolVars>>

\* url and local_path the fetch leaves behind ("set": some string)
Fetched(reply) ==
    CASE reply = "not 200" -> [url |-> "None", local_path |-> "None"]
      [] reply = "video bytes" -> [url |-> "set", local_path |-> "set"]
      [] reply = "json url, download ok" -> [url |-> "set", local_path |-> "set"]
      [] reply = "json url, download refused" -> [url |-> "set", local_path |-> "None"]
      [] reply = "json url, download raises" -> [url |-> "set", local_path |-> "None"]
      [] reply = "json without url" -> [url |-> "None", local_path |-> "None"]
      [] reply = "text url, download ok" -> [url |-> "set", local_path |-> "set"]
      [] reply = "text url, download refused" -> [url |-> "set", local_path |-> "None"]
      [] reply = "text url, download raises" -> [url |-> "set", local_path |-> "None"]
      [] reply = "other text" -> [url |-> "set", local_path |-> "None"]

\* the content request, the file write, the append to _generated_videos and
\* the return
Fetch(c, reply) ==
    /\ pc[c] = "fetch"
    /\ IF reply = "exception"
       THEN /\ Leave(c, Raised("exception in requests.get"))
            /\ UNCHANGED generated_videos
       ELSE LET r == ResultDescriptor(Fetched(reply).url, Fetched(reply).local_path,
                                      seconds[c].sent)
            IN  /\ Leave(c, r)
                /\ generated_videos' =
                       [generated_videos EXCEPT ![tool[c]] = Append(@, r)]
    /\ Release(c)
    /\ UNCHANGED <<output_dir, credentials, cause>>
    /\ UNCHANGED <<extractVars, runVars, toolVars>>

\* no list handed out
NoView == [of |-> NoTool, shared |-> FALSE, items |-> << >>]

\* an accessor that hands out the tool's own list
GeneratedVideosNoCopy(t) == [of |-> t, shared |-> TRUE, items |-> generated_videos[t]]

\* the generated_videos property: self._generated_videos.copy()
GeneratedVideos(t) == [of |-> t, shared |-> FALSE, items |-> generated_videos[t]]

\* a caller reads the property and keeps the list
ReadGeneratedVideos(t) ==
    /\ view = NoView
    /\ view' = GeneratedVideos(t)
    /\ UNCHANGED <<tavily, flux, called, campaignVars>>
    /\ UNCHANGED <<extractVars, videoVars, runVars>>

\* the caller appends a record of its own to the list it keeps (once per
\* length of the tool's list); a list that is the tool's own list changes for
\* the tool too
ChangeView ==
    /\ view # NoView
    /\ Len(view.items) = Len(generated_videos[view.of])
    /\ view' = [view EXCEPT !.items = Append(@, ResultDescriptor("foreign", "foreign", 0))]
    /\ generated_videos' =
           IF view.shared
           THEN [generated_videos EXCEPT ![view.of] = view'.items]
           ELSE generated_videos
    /\ UNCHANGED <<output_dir, credentials, lockHolder, pc, tool, seconds, elapsed,
                   checks, outcome, cause>>
    /\ UNCHANGED <<tavily, flux, called, campaignVars>>
    /\ UNCHANGED <<extractVars, runVars>>

----------------------------------------------------------------------------
(* tools.py: TavilySearchTools, FluxImageGenerationTools *)

MaxImages == 2

Queries == {"q1", "q2"}
PromptIds == {"prompt-01", "prompt-02"}

NoCall == [tool |-> "none", arg |-> "", reply |-> "", result |-> [status |-> "none"]]

\* the objects as their constructors leave them, the environment holding the
\* settings or not
InitTools ==
    /\ tavily \in [api_key : BOOLEAN, client : {FALSE}]
    /\ flux \in [endpoint : BOOLEAN, api_key : BOOLEAN, output_dir : {FALSE},
                 client : {FALSE}, generated_images : {<< >>}]
    /\ called = NoCall

\* what client.search may do: raise, or return a response with or without
\* results and answer
SearchReplies == {"exception", "results and answer", "results", "nothing"}

\* what client.images.generate and the download after it may do
ImageReplies == {"exception", "no data", "b64", "b64, write raises", "url, download ok",
                 "url, download refused", "url, download raises", "neither"}

\* a _do_search that lets the exception through
SearchFailedRaises(query) ==
    [status |-> "raised", query |-> query, error |-> "exception", results |-> << >>,
     answer |-> ""]

\* the dictionary of _do_search's except branch
SearchFailed(query) ==
    [status |-> "returned", query |-> query, error |-> "Web search failed", results |-> << >>,
     answer |-> ""]

\* the dictionary _do_search returns for a response
SearchPayload(query, reply) ==
    [status |-> "returned", query |-> query, error |-> "",
     results |-> IF reply \in {"results and answer", "results"} THEN <<"item">> ELSE << >>,
     answer |-> IF reply = "results and answer" THEN "answer" ELSE ""]

\* _get_client of either tool raises: no client yet and a setting missing
TavilyClientMissing == ~tavily.client /\ ~tavily.api_key
FluxClientMissing == ~flux.client /\ (~flux.endpoint \/ ~flux.api_key)

\* web_search(query): _do_search
WebSearch(query, reply) ==
    /\ IF TavilyClientMissing
       THEN /\ called' = [tool |-> "web_search", arg |-> query, reply |-> "not sent",
                          result |-> SearchFailed(query)]
            /\ UNCHANGED tavily
       ELSE /\ tavily' = [tavily EXCEPT !.client = TRUE]
            /\ called' = [tool |-> "web_search", arg |-> query, reply |-> reply,
                          result |-> IF reply = "exception" THEN SearchFailed(query)
                                     ELSE SearchPayload(query, reply)]
    /\ UNCHANGED <<view, flux, campaignVars>>
    /\ UNCHANGED <<extractVars, videoVars, runVars>>

\* the dictionaries _do_generate_image returns with an "error" key
ImageError(prompt_id, msg) ==
    [status |-> "returned", prompt_id |-> prompt_id, error |-> msg, url |-> "None",
     local_path |-> "None"]

\* the dictionary of _do_generate_image's except branch
ImageFailed(prompt_id) == ImageError(prompt_id, "Image generation failed")

\* the result _do_generate_image appends and returns ("set": some string);
\* url falls back to the file's path
ImageResult(prompt_id, reply) ==
    [status |-> "returned", prompt_id |-> prompt_id, error |-> "", url |-> "set",
     local_path |-> IF reply \in {"b64", "url, download ok"} THEN "set" ELSE "None"]

\* FluxImageGenerationTools.set_output_dir
FluxSetOutputDir ==
    /\ ~flux.output_dir
    /\ flux' = [flux EXCEPT !.output_dir = TRUE]
    /\ UNCHANGED <<view, tavily, called, campaignVars>>
    /\ UNCHANGED <<extractVars, videoVars, runVars>>

\* generate_image(prompt, prompt_id): _do_generate_image
GenerateImage(prompt_id, reply) ==
    /\ Len(flux.generated_images) < MaxImages
    /\ IF ~flux.output_dir
       THEN /\ called' = [tool |-> "generate_image", arg |-> prompt_id, reply |-> "not sent",
                          result |-> ImageError(prompt_id, "Image output directory not set")]
            /\ UNCHANGED flux
       ELSE IF FluxClientMissing
       THEN /\ called' = [tool |-> "generate_image", arg |-> prompt_id, reply |-> "not sent",
                          result |-> ImageFailed(prompt_id)]
            /\ UNCHANGED flux
       ELSE IF reply \in {"exception", "no data", "b64, write raises"}
       THEN /\ called' = [tool |-> "generate_image", arg |-> prompt_id, reply |-> reply,
                          result |-> ImageFailed(prompt_id)]
            /\ flux' = [flux EXCEPT !.client = TRUE]
       ELSE /\ called' = [tool |-> "generate_image", arg |-> prompt_id, reply |-> reply,
                          result |-> ImageResult(prompt_id, reply)]
            /\ flux' = [flux EXCEPT !.client = TRUE,
                                    !.generated_images = Append(@, ImageResult(prompt_id, reply))]
    /\ UNCHANGED <<view, tavily, campaignVars>>
    /\ UNCHANGED <<extractVars, videoVars, runVars>>

NextTools ==
    \/ \E query \in Queries, reply \in SearchReplies : WebSearch(query, reply)
    \/ FluxSetOutputDir
    \/ \E prompt_id \in PromptIds, reply \in ImageReplies : GenerateImage(prompt_id, reply)

----------------------------------------------------------------------------
(* workflow.py: AgenticMarketingWorkflow.run and the campaign directories *)

\* the clock runs from 0 to MaxClock ticks, two ticks to the second
MaxClock == 3
TicksPerSecond == 2

WorkflowObjects == {"wf_a", "wf_b"}
RunCalls == {"run_1", "run_2"}

\* no directory; a campaign directory is known by its timestamp
NoDir == -1

NoCampaign == [pc |-> "idle", workflow |-> "none", campaign_dir |-> NoDir, written |-> {},
               persisted |-> NoDir]

\* timestamp_id: strftime("%Y%m%d_%H%M%S"), the time cut to the second
TimestampId(now) == now \div TicksPerSecond

InitCampaigns ==
    /\ clock = 0
    /\ asset_dir = [w \in WorkflowObjects |-> NoDir]
    /\ runs = [r \in RunCalls |-> NoCampaign]

\* time passes
Tick ==
    /\ clock < MaxClock
    /\ clock' = clock + 1
    /\ UNCHANGED <<asset_dir, runs>>
    /\ UNCHANGED <<view, tavily, flux, called>>
    /\ UNCHANGED <<extractVars, videoVars, runVars>>

\* run(topic) on workflow object w up to the start of the stream: the
\* campaign directory, set_output_dir on the object's image and video tools,
\* _create_workflow(campaign_dir)
StartRun(r, w) ==
    /\ runs[r].pc = "idle"
    /\ asset_dir' = [asset_dir EXCEPT ![w] = TimestampId(clock)]
    /\ runs' = [runs EXCEPT ![r] = [pc |-> "running", workflow |-> w,
                                      campaign_dir |-> TimestampId(clock), written |-> {},
                                      persisted |-> NoDir]]
    /\ UNCHANGED clock
    /\ UNCHANGED <<view, tavily, flux, called>>
    /\ UNCHANGED <<extractVars, videoVars, runVars>>

\* the image or the video stage of run r has its tool write a file: under
\* the tool's _output_dir as it is then
WriteAsset(r) ==
    /\ runs[r].pc = "running"
    /\ runs' = [runs EXCEPT ![r].written = @ \cup {asset_dir[runs[r].workflow]}]
    /\ UNCHANGED <<clock, asset_dir>>
    /\ UNCHANGED <<view, tavily, flux, called>>
    /\ UNCHANGED <<extractVars, videoVars, runVars>>

\* the packaging executor of run r persists into the campaign_dir it was
\* built with, and the run ends
PersistCampaign(r) ==
    /\ runs[r].pc = "running"
    /\ runs' = [runs EXCEPT ![r].pc = "done", ![r].persisted = runs[r].campaign_dir]
    /\ UNCHANGED <<clock, asset_dir>>
    /\ UNCHANGED <<view, tavily, flux, called>>
    /\ UNCHANGED <<extractVars, videoVars, runVars>>

NextCampaigns ==
    \/ Tick
    \/ \E r \in RunCalls, w \in WorkflowObjects : StartRun(r, w)
    \/ \E r \in RunCalls : WriteAsset(r)
    \/ \E r \in RunCalls : PersistCampaign(r)

ToolsIdle ==
    /\ InitCampaigns
    /\ view = NoView
    /\ tavily = [api_key |-> TRUE, client |-> FALSE]
    /\ flux = [endpoint |-> TRUE, api_key |-> TRUE, output_dir |-> FALSE, client |-> FALSE,
               generated_images |-> << >>]
    /\ called = NoCall

NextVideo ==
    \/ \E t \in ToolInstances : SetOutputDir(t)
    \/ \E c \in Callers, t \in ToolInstances, s \in RequestedSeconds : StartCall(c, t, s)
    \/ \E c \in Callers : Acquire(c)
    \/ \E c \in Callers, reply \in VideoReplies.post : Post(c, reply)
    \/ \E c \in Callers, reply \in VideoReplies.poll : Poll(c, reply)
    \/ \E c \in Callers, reply \in VideoReplies.fetch : Fetch(c, reply)

\* the calls as far as the lock goes: the content request raises, or returns
\* without or with an artifact
NextLock ==
    \/ \E t \in ToolInstances : SetOutputDir(t)
    \/ \E c \in Callers, t \in ToolInstances, s \in RequestedSeconds : StartCall(c, t, s)
    \/ \E c \in Callers : Acquire(c)
    \/ \E c \in Callers, reply \in VideoReplies.post : Post(c, reply)
    \/ \E c \in Callers, reply \in VideoReplies.poll : Poll(c, reply)
    \/ \E c \in Callers, reply \in {"exception", "not 200", "video bytes"} : Fetch(c, reply)

\* one call at a time from one caller, with any duration
NextOneCall ==
    \/ \E t \in ToolInstances : SetOutputDir(t)
    \/ \E t \in ToolInstances, s \in AnySeconds : StartCall(Least(Callers), t, s)
    \/ Acquire(Least(Callers))
    \/ \E reply \in VideoReplies.post : Post(Least(Callers), reply)
    \/ \E reply \in VideoReplies.poll : Poll(Least(Callers), reply)
    \/ \E reply \in VideoReplies.fetch : Fetch(Least(Callers), reply)
    \/ \E t \in ToolInstances : ReadGeneratedVideos(t)
    \/ ChangeView

----------------------------------------------------------------------------
(* Inputs of the extractor: texts assembled from at most MaxTok fragments *)

MaxTok == 4

KeyOpen == <<"{", "\"", "k", "\"", ":">>

Tokens == {
    KeyOpen,                        \* {"k":
    KeyOpen \o <<"\"">>,            \* {"k":"
    <<"\"", "}">>,                  \* "}
    <<"}">>, <<"\"">>, <<",">>, <<"\\">>, <<"\n">>, <<"1">>
}

TokenSeqs(n) == UNION {[1..m -> Tokens] : m \in 0..n}

RECURSIVE Flatten(_)
Flatten(ts) == IF ts = << >> THEN << >> ELSE Head(ts) \o Flatten(Tail(ts))

\* how the generator wraps the object: bare, or in a fenced block (with the
\* json tag; followed by prose that itself holds a brace; or between two
\* braces and followed by a second block that holds an object); a wrapping
\* takes one fragment of the budget
Wrap(w, body) ==
    CASE w = "bare"   -> body
      [] w = "fenced" -> Fence \o <<"j", "s", "o", "n", "\n">> \o body \o <<"\n">> \o Fence
      [] w = "prose"  -> <<"o", "k", " ">> \o Fence \o body \o Fence \o <<" ", "}">>
      [] w = "blocks" -> <<"{", " ">> \o Fence \o body \o Fence \o <<" ">>
                         \o Fence \o <<"{", "}">> \o Fence \o <<" ", "}">>

Payloads ==
    {Wrap(w, Flatten(ts)) : w \in {"bare"}, ts \in TokenSeqs(MaxTok)}
    \cup {Wrap(w, Flatten(ts)) : w \in {"fenced", "prose", "blocks"}, ts \in TokenSeqs(MaxTok - 1)}

\* Inputs of the repair: objects with one string value whose body is
\* assembled from at most MaxBody fragments (a backslash, a \u escape one
\* digit short, a digit, a raw newline, a comma, a brace, a quote), closed
\* properly or with a trailing comma
MaxBody == 4

StringTokens ==
    {<<"\\">>, <<"\\", "u", "1", "1", "1">>, <<"1">>, <<"\n">>, <<",">>, <<"}">>, <<"\"">>}

StringPayloads ==
    {KeyOpen \o <<"\"">> \o Flatten(ts) \o <<"\"">> \o tail :
        ts \in UNION {[1..m -> StringTokens] : m \in 0..MaxBody},
        tail \in {<<"}">>, <<",", "}">>}}

NotRun == [raised |-> "not run", value |-> << >>]
NoFix == [text |-> << >>, step |-> 0]

ExtractIdle ==
    /\ payload = << >>
    /\ extractOut = NotRun
    /\ fixOut = NoFix

InitExtract ==
    /\ payload \in Payloads
    /\ extractOut = NotRun
    /\ fixOut = NoFix

\* one call extract_json_object(payload); fixOut keeps what the inner
\* _fix_json_string call returned, when the call was reached
CallExtract ==
    /\ extractOut = NotRun
    /\ extractOut' = ExtractJsonObject(payload)
    /\ fixOut' = IF extractOut'.raised \in {"empty", "boundaries"} THEN NoFix
                 ELSE FixJsonString(Candidate(WorkingText(payload)))
    /\ UNCHANGED payload
    /\ UNCHANGED <<videoVars, runVars, toolVars>>

----------------------------------------------------------------------------
(* workflow.py: the sequential run and _PackagingExecutor *)

Msg(role, author_name, text) == [role |-> role, author_name |-> author_name, text |-> text]

\* agent_names, as _create_workflow passes them
agent_names == [strategy |-> "strategy_agent", copywriting |-> "copywriting_agent",
                image |-> "image_agent", video |-> "video_agent"]

\* the list with the image stage ahead of the copywriting stage
ParticipantsReordered(cfg) ==
    <<IF cfg.enable_deep_research THEN "deep-research-executor" ELSE "strategy_agent",
      "image_agent", "copywriting_agent", "video_agent", "packaging-executor">>

\* the participants list of _create_workflow, by executor id
Participants(cfg) ==
    <<IF cfg.enable_deep_research THEN "deep-research-executor" ELSE "strategy_agent",
      "copywriting_agent", "image_agent", "video_agent", "packaging-executor">>

Agents == {"strategy_agent", "copywriting_agent", "image_agent", "video_agent"}

\* a scan from the front: the oldest assistant message of the author
ExtractFirstMessageText(conversation, author_name) ==
    LET hits == {i \in 1..Len(conversation) :
                    /\ conversation[i].role = "assistant"
                    /\ conversation[i].author_name = author_name}
    IN  IF hits = {} THEN [raised |-> "missing", text |-> << >>, at |-> 0]
        ELSE IF conversation[Least(hits)].text = << >>
        THEN [raised |-> "empty", text |-> << >>, at |-> Least(hits)]
        ELSE [raised |-> "", text |-> conversation[Least(hits)].text, at |-> Least(hits)]

\* a scan that skips the author's empty messages and takes the newest one
\* with text
ExtractLastNonEmptyText(conversation, author_name) ==
    LET hits == {i \in 1..Len(conversation) :
                    /\ conversation[i].role = "assistant"
                    /\ conversation[i].author_name = author_name
                    /\ conversation[i].text # << >>}
    IN  IF hits = {} THEN [raised |-> "missing", text |-> << >>, at |-> 0]
        ELSE [raised |-> "", text |-> conversation[Least({0 - i : i \in hits}) * (0 - 1)].text,
              at |-> Least({0 - i : i \in hits}) * (0 - 1)]

\* _extract_message_text: the newest assistant message of the author
ExtractMessageText(conversation, author_name) ==
    LET hits == {i \in 1..Len(conversation) :
                    /\ conversation[i].role = "assistant"
                    /\ conversation[i].author_name = author_name}
    IN  IF hits = {} THEN [raised |-> "missing", text |-> << >>, at |-> 0]
        ELSE LET last == CHOOSE i \in hits : \A j \in hits : j <= i
             IN  IF conversation[last].text = << >>
                 THEN [raised |-> "empty", text |-> << >>, at |-> last]
                 ELSE [raised |-> "", text |-> conversation[last].text, at |-> last]

\* model_cls.model_validate_json(payload), payload being what
\* extract_json_object returned or raised
ValidateJson(model_cls, x, at) ==
    IF x.raised # "" THEN [raised |-> "extract", payload |-> << >>, at |-> at]
    ELSE IF ~ModelValidates(model_cls, x.value)
    THEN [raised |-> "validate", payload |-> << >>, at |-> at]
    ELSE [raised |-> "", payload |-> x.value, at |-> at]

\* _extract_model, raw_text being what _extract_message_text returned or
\* raised
ExtractModelFrom(raw_text, model_cls) ==
    IF raw_text.raised # ""
    THEN [raised |-> raw_text.raised, payload |-> << >>, at |-> raw_text.at]
    ELSE ValidateJson(model_cls, ExtractJsonObject(raw_text.text), raw_text.at)

\* _extract_model: the validated record is kept as the JSON text it was
\* validated from
ExtractModel(conversation, author_name, model_cls) ==
    ExtractModelFrom(ExtractMessageText(conversation, author_name), model_cls)

NoPackage == << >>

\* CampaignPackage(...) of _build_package, or the first exception among
\* the five extractions; the package is returned in a one-element sequence
Assemble(t, strategy, copywriting, images, video) ==
    IF t.raised # "" THEN [raised |-> "topic", stage |-> "topic", package |-> NoPackage]
    ELSE IF strategy.raised # ""
    THEN [raised |-> strategy.raised, stage |-> "strategy", package |-> NoPackage]
    ELSE IF copywriting.raised # ""
    THEN [raised |-> copywriting.raised, stage |-> "copywriting", package |-> NoPackage]
    ELSE IF images.raised # ""
    THEN [raised |-> images.raised, stage |-> "image", package |-> NoPackage]
    ELSE IF video.raised # ""
    THEN [raised |-> video.raised, stage |-> "video", package |-> NoPackage]
    ELSE [raised |-> "", stage |-> "",
          package |-> <<[campaign_id |-> Slugify(t.value \o <<"-">> \o
                             StringField(strategy.payload, Field.target_audience)),
                         topic |-> t.value,
                         strategy |-> strategy.payload,
                         copywriting |-> copywriting.payload,
                         images |-> images.payload,
                         video |-> video.payload,
                         package_path |-> "None"]>>]

\* _build_package
BuildPackage(conversation) ==
    Assemble(ExtractTopic(conversation),
             ExtractModel(conversation, agent_names.strategy, MarketingStrategy),
             ExtractModel(conversation, agent_names.copywriting, CopywritingContent),
             ExtractModel(conversation, agent_names.image, ImageContent),
             ExtractModel(conversation, agent_names.video, VideoScript))

\* package.model_dump_json(indent=2): the sub-records are written as the
\* texts they were validated from
PackageDump(package) ==
    JsonDumps(<<Member(<<"c", "a", "m", "p", "a", "i", "g", "n", "_", "i", "d">>, JsonString(package.campaign_id)),
                Member(Field.topic, JsonString(package.topic)),
                Member(<<"s", "t", "r", "a", "t", "e", "g", "y">>, package.strategy),
                Member(<<"c", "o", "p", "y", "w", "r", "i", "t", "i", "n", "g">>, package.copywriting),
                Member(<<"i", "m", "a", "g", "e", "s">>, package.images),
                Member(<<"v", "i", "d", "e", "o">>, package.video),
                Member(<<"p", "a", "c", "k", "a", "g", "e", "_", "p", "a", "t", "h">>, <<"n", "u", "l", "l">>)>>)

\* persist_package writes the strategy files and the copywriting files and
\* then reads package.copywriting.email_campaign, which CopywritingContent
\* does not declare: the call raises AttributeError
PersistPackageWrites == {"strategy", "copywriting"}

NoRun == [status |-> "running", value |-> NoPackage, what |-> ""]

\* the topics run() is called with
Topics == {<<"A", "I">>, << >>}

\* what a generator may answer: texts that validate, texts
\* _fix_json_string repairs, texts that parse but miss a required field
\* or hold the wrong kind, a text without an object, and no text
Answer ==
    [strategy |->
        [valid |-> <<"{", "\"", "t", "o", "p", "i", "c", "\"", ":", "\"", "A", "I", "\"", ",",
             "\"", "t", "a", "r", "g", "e", "t", "_", "a", "u", "d", "i", "e", "n", "c",
             "e", "\"", ":", "\"", "D", "e", "v", "s", "\"", ",", "\"", "t", "o", "n",
             "e", "_", "o", "f", "_", "v", "o", "i", "c", "e", "\"", ":", "\"", "b",
             "o", "l", "d", "\"", "}">>,
         valid2 |-> <<"{", "\"", "t", "o", "p", "i", "c", "\"", ":", "\"", "A", "I", "\"", ",",
             "\"", "t", "a", "r", "g", "e", "t", "_", "a", "u", "d", "i", "e", "n", "c",
             "e", "\"", ":", "\"", "O", "p", "s", "\"", ",", "\"", "t", "o", "n", "e",
             "_", "o", "f", "_", "v", "o", "i", "c", "e", "\"", ":", "\"", "c", "a",
             "l", "m", "\"", "}">>,
         fixable |-> <<"{", "\"", "t", "o", "p", "i", "c", "\"", ":", "\"", "A", "I", "\"", ",",
             "\"", "t", "a", "r", "g", "e", "t", "_", "a", "u", "d", "i", "e", "n", "c",
             "e", "\"", ":", "\"", "D", "e", "v", "s", "\"", ",", "\"", "t", "o", "n",
             "e", "_", "o", "f", "_", "v", "o", "i", "c", "e", "\"", ":", "\"", "b",
             "o", "l", "d", "\"", ",", "}">>,
         invalid |-> <<"{", "\"", "t", "o", "p", "i", "c", "\"", ":", "\"", "A", "I", "\"",
             "}">>,
         notopic |-> <<"{", "\"", "t", "a", "r", "g", "e", "t", "_", "a", "u", "d", "i", "e",
             "n", "c", "e", "\"", ":", "\"", "D", "e", "v", "s", "\"", ",", "\"", "t",
             "o", "n", "e", "_", "o", "f", "_", "v", "o", "i", "c", "e", "\"", ":",
             "\"", "b", "o", "l", "d", "\"", "}">>],
     copywriting |->
        [valid |-> <<"{", "\"", "h", "e", "r", "o", "_", "m", "e", "s", "s", "a", "g", "e", "\"",
             ":", "\"", "G", "o", "\"", ",", "\"", "b", "l", "o", "g", "_", "a", "r",
             "t", "i", "c", "l", "e", "\"", ":", "\"", "H", "i", "\"", "}">>,
         valid2 |-> <<"{", "\"", "h", "e", "r", "o", "_", "m", "e", "s", "s", "a", "g", "e",
             "\"", ":", "\"", "U", "p", "\"", ",", "\"", "b", "l", "o", "g", "_", "a",
             "r", "t", "i", "c", "l", "e", "\"", ":", "\"", "Y", "o", "\"", "}">>,
         fixable |-> Fence \o <<"j", "s", "o", "n", "\n", "{", "\"", "h", "e", "r", "o", "_",
             "m", "e", "s", "s", "a", "g", "e", "\"", ":", "\"", "G", "o", "\n", "n",
             "o", "w", "\"", ",", "\"", "b", "l", "o", "g", "_", "a", "r", "t", "i",
             "c", "l", "e", "\"", ":", "\"", "H", "i", "\"", "}", "\n">> \o Fence,
         invalid |-> <<"{", "\"", "h", "e", "r", "o", "_", "m", "e", "s", "s", "a", "g", "e",
             "\"", ":", "\"", "G", "o", "\"", "}">>],
     image |->
        [valid |-> <<"{", "\"", "p", "r", "o", "m", "p", "t", "s", "\"", ":", "[", "]", ",",
             "\"", "a", "s", "s", "e", "t", "s", "\"", ":", "[", "]", "}">>,
         valid2 |-> <<"{", "}">>,
         fixable |-> <<"{", "\"", "p", "r", "o", "m", "p", "t", "s", "\"", ":", "[", "]", ",",
             "}">>,
         invalid |-> <<"{", "\"", "p", "r", "o", "m", "p", "t", "s", "\"", ":", "\"", "x", "\"",
             "}">>],
     video |->
        [valid |-> <<"{", "\"", "c", "t", "a", "\"", ":", "\"", "B", "u", "y", "\"", "}">>,
         valid2 |-> <<"{", "\"", "c", "t", "a", "\"", ":", "\"", "T", "r", "y", "\"", "}">>,
         fixable |-> <<"H", "e", "r", "e", ":", " ", "{", "\"", "c", "t", "a", "\"", ":", "\"",
             "B", "u", "y", "\"", ",", "}", " ", "d", "o", "n", "e">>,
         invalid |-> <<"{", "\"", "c", "t", "a", "\"", ":", "[", "]", "}">>]]

Malformed == <<"n", "o", " ", "o", "b", "j", "e", "c", "t">>

AgentReplies(name) ==
    LET answers == Answer[CHOOSE k \in DOMAIN agent_names : agent_names[k] = name]
    IN  {answers.valid, answers.fixable, answers.invalid, Malformed, << >>}

\* what the three research agents may answer
\* what the three research agents may answer
ResearchReplies ==
    [planner |-> {<<"{", "\"", "r", "e", "s", "e", "a", "r", "c", "h", "_", "d", "i", "m",
         "e", "n", "s", "i", "o", "n", "s", "\"", ":", "[", "]", "}">>, Malformed},
     researcher |-> {<<"{", "\"", "r", "e", "s", "e", "a", "r", "c", "h", "_", "f", "i", "n",
         "d", "i", "n", "g", "s", "\"", ":", "[", "]", "}">>, Malformed},
     analyst |-> {Answer.strategy.valid, Answer.strategy.fixable, Answer.strategy.notopic,
         Answer.strategy.invalid, Malformed, << >>}]

NoConversation == << >>

\* run(topic) has built the workflow and the stream has started: the
\* framework's seed conversation is the topic as one user message
InitRun ==
    /\ config \in [enable_deep_research : BOOLEAN, persist_output : BOOLEAN]
    /\ \E topic \in Topics :
        conv = [i \in 1..6 |-> IF i = 1 THEN <<Msg("user", "", topic)>> ELSE NoConversation]
    /\ stage = 1
    /\ invoked = << >>
    /\ research = << >>
    /\ persisted = {}
    /\ stream = "open"
    /\ yielded = NoPackage
    /\ returned = NoRun

RunIdle ==
    /\ config = [enable_deep_research |-> FALSE, persist_output |-> FALSE]
    /\ conv = [i \in 1..6 |-> NoConversation]
    /\ stage = 1
    /\ invoked = << >>
    /\ research = << >>
    /\ persisted = {}
    /\ stream = "closed"
    /\ yielded = NoPackage
    /\ returned = NoRun

\* conversation.append(m); ctx.send_message(conversation): the received
\* list itself grows and is what goes downstream
SentInPlace(conversations, at, message) ==
    [conversations EXCEPT ![at] = Append(conversations[at], message),
                          ![at + 1] = Append(conversations[at], message)]

\* updated_conversation = list(conversation); updated_conversation.append(m);
\* ctx.send_message(updated_conversation): the list handed to participant
\* at + 1 is a new one, the received list stays as it is (the same three
\* statements end DeepResearchExecutor.handle)
Sent(conversations, at, message) ==
    [conversations EXCEPT ![at + 1] = Append(conversations[at], message)]

\* an agent participant answers: the framework hands the next participant
\* the conversation with the agent's message, authored by the agent's name
AgentStage(name, text) ==
    /\ stream = "open"
    /\ Participants(config)[stage] = name
    /\ invoked' = Append(invoked, Participants(config)[stage])
    /\ conv' = [conv EXCEPT ![stage + 1] =
                   Append(conv[stage], Msg("assistant", Participants(config)[stage], text))]
    /\ stage' = stage + 1
    /\ UNCHANGED <<config, research, persisted, stream, yielded, returned>>
    /\ UNCHANGED <<extractVars, videoVars, toolVars>>

\* an agent participant's run raises
AgentStageFails ==
    /\ stream = "open"
    /\ Participants(config)[stage] \in Agents
    /\ invoked' = Append(invoked, Participants(config)[stage])
    /\ stream' = "failed"
    /\ UNCHANGED <<config, conv, stage, research, persisted, yielded, returned>>
    /\ UNCHANGED <<extractVars, videoVars, toolVars>>

\* the executor's own id as the author
AuthorIsExecutorId == "deep-research-executor"

\* DeepResearchExecutor.__init__: self._author
_author == "strategy_agent"

\* handle from the validation on: the message and the new list
Publish(research_plan, research_findings, strategy_json) ==
    /\ conv' = Sent(conv, stage,
                     Msg("assistant", _author, StrategyOutputText(strategy_json)))
    /\ stage' = stage + 1
    /\ UNCHANGED stream

\* handle after _extract_topic: the three phases
Phases(t, plan_text, findings_text, strategy_text) ==
    IF t.raised # ""
    THEN /\ stream' = "failed"
         /\ UNCHANGED <<conv, stage, research>>
    ELSE /\ research' = PhaseLog(t.value, plan_text, findings_text, strategy_text)
         /\ Publish(RunPlanning(t.value, plan_text),
                    RunResearch(t.value, RunPlanning(t.value, plan_text), findings_text),
                    RunAnalysis(t.value, strategy_text))

\* DeepResearchExecutor.handle, the three research agents answering
DeepResearchHandle(plan_text, findings_text, strategy_text) ==
    /\ stream = "open"
    /\ Participants(config)[stage] = "deep-research-executor"
    /\ invoked' = Append(invoked, Participants(config)[stage])
    /\ Phases(ExtractTopic(conv[stage]), plan_text, findings_text, strategy_text)
    /\ UNCHANGED <<config, persisted, yielded, returned>>
    /\ UNCHANGED <<extractVars, videoVars, toolVars>>

\* DeepResearchExecutor.handle when something outside the three try blocks
\* raises: the run of one of its agents, or len() of a parsed plan's
\* research_dimensions (of parsed findings' research_findings) that is a
\* number, a boolean or null
DeepResearchFails ==
    /\ stream = "open"
    /\ Participants(config)[stage] = "deep-research-executor"
    /\ invoked' = Append(invoked, Participants(config)[stage])
    /\ stream' = "failed"
    /\ research' = <<[phase |-> "raised", reply |-> << >>, plan |-> "none",
                      findings |-> "none", result |-> << >>]>>
    /\ UNCHANGED <<config, conv, stage, persisted, yielded, returned>>
    /\ UNCHANGED <<extractVars, videoVars, toolVars>>

\* handle after _build_package: persist, summary, send, yield
Deliver(built) ==
    IF built.raised # ""
    THEN /\ stream' = "failed"
         /\ UNCHANGED <<conv, stage, persisted, yielded>>
    ELSE IF config.persist_output
    THEN /\ persisted' = PersistPackageWrites
         /\ stream' = "failed"
         /\ UNCHANGED <<conv, stage, yielded>>
    ELSE /\ conv' = Sent(conv, stage,
                          Msg("assistant", "packaging_executor",
                              PackageDump(built.package[1])))
         /\ yielded' = built.package
         /\ stage' = stage + 1
         /\ stream' = "ended"
         /\ UNCHANGED persisted

\* _PackagingExecutor.handle
PackagingHandle ==
    /\ stream = "open"
    /\ Participants(config)[stage] = "packaging-executor"
    /\ invoked' = Append(invoked, Participants(config)[stage])
    /\ Deliver(BuildPackage(conv[stage]))
    /\ UNCHANGED <<config, research, returned>>
    /\ UNCHANGED <<extractVars, videoVars, toolVars>>

\* an end of run() that hands back an empty package when none was captured
RunFinishWithDefault ==
    /\ stream \in {"ended", "failed"}
    /\ returned.status = "running"
    /\ returned' = [status |-> "returned", what |-> "",
                    value |-> IF yielded = NoPackage
                              THEN <<[campaign_id |-> <<"c", "a", "m", "p", "a", "i", "g", "n">>,
                                      topic |-> << >>, strategy |-> << >>,
                                      copywriting |-> << >>, images |-> << >>,
                                      video |-> << >>, package_path |-> "None"]>>
                              ELSE yielded]
    /\ UNCHANGED <<config, conv, stage, invoked, research, persisted, stream, yielded>>
    /\ UNCHANGED <<extractVars, videoVars, toolVars>>

\* the end of run(): the stream is over; an executor's exception leaves the
\* loop, a missing package raises RuntimeError, a package is returned
RunFinish ==
    /\ stream \in {"ended", "failed"}
    /\ returned.status = "running"
    /\ LET final_package == yielded IN
       returned' = IF stream = "failed"
                   THEN [status |-> "raised", value |-> NoPackage, what |-> "executor failed"]
                   ELSE IF final_package = NoPackage
                   THEN [status |-> "raised", value |-> NoPackage, what |-> "RuntimeError"]
                   ELSE [status |-> "returned", value |-> final_package, what |-> ""]
    /\ UNCHANGED <<config, conv, stage, invoked, research, persisted, stream, yielded>>
    /\ UNCHANGED <<extractVars, videoVars, toolVars>>

NextRun ==
    \/ \E name \in Agents : \E text \in AgentReplies(name) : AgentStage(name, text)
    \/ AgentStageFails
    \/ \E p \in ResearchReplies.planner, f \in ResearchReplies.researcher,
          a \in ResearchReplies.analyst :
          DeepResearchHandle(p, f, a)
    \/ DeepResearchFails
    \/ PackagingHandle
    \/ RunFinish

NextPackaging == PackagingHandle \/ RunFinish

\* topics in the scripts _detect_language tells apart
LanguageTopics ==
    {<<"A", "I">>, <<Char.HAN>>, <<Char.KANA>>, <<Char.HANGUL>>, <<"A", Char.KANA, Char.HAN>>}

\* a strategy of the analyst that names an output language itself
StrategyInFrench ==
    SubSeq(Answer.strategy.valid, 1, Len(Answer.strategy.valid) - 1)
    \o <<",", "\"">> \o Field.output_language \o <<"\"", ":", "\"", "f", "r", "\"", "}">>

\* the Deep-Research stage alone
NextResearch ==
    \/ \E p \in ResearchReplies.planner, f \in ResearchReplies.researcher,
          a \in ResearchReplies.analyst \cup {StrategyInFrench} :
          DeepResearchHandle(p, f, a)
    \/ DeepResearchFails


----------------------------------------------------------------------------
(* Inputs of _PackagingExecutor.handle: final conversations in which three  *)
(* stages contributed one valid message each and the place of the fourth    *)
(* holds up to MaxSeg messages of any role, author and text                  *)

MaxSeg == 2

StageKeys == {"strategy", "copywriting", "image", "video"}

\* author_name None is the empty name
SegmentMessages(k) ==
    {Msg(r, a, t) : r \in {"assistant", "user"},
                    a \in {agent_names[k], "packaging_executor", ""},
                    t \in {Answer[k].valid, Answer[k].valid2, << >>}}

Segments(k) == UNION {[1..n -> SegmentMessages(k)] : n \in 0..MaxSeg}

Part(k, focus, seg) ==
    IF k = focus THEN seg ELSE <<Msg("assistant", agent_names[k], Answer[k].valid)>>

\* the topics of the conversations packaging receives: a short one, one of
\* 59 letters, one with blanks, capitals, punctuation and a CJK character,
\* one of hyphens, one with a letter outside ASCII
PackagingTopics ==
    {<<"A", "I">>,
     [i \in 1..59 |-> "a"],
     <<"M", "y", " ", " ", "T", "o", "p", "!", Char.HAN, "9">>,
     <<"-", "-">>,
     <<"a", Char.LONG_S>>}

FinalConversation(topic, focus, seg) ==
    <<Msg("user", "", topic)>> \o Part("strategy", focus, seg)
    \o Part("copywriting", focus, seg) \o Part("image", focus, seg)
    \o Part("video", focus, seg)

\* the four generators have run; packaging is next. The conversations are
\* those of the first topic with every segment, and those of every topic
\* with one non-empty message per generator
InitPackaging ==
    /\ config \in [enable_deep_research : {FALSE}, persist_output : BOOLEAN]
    /\ \E focus \in StageKeys : \E seg \in Segments(focus) : \E topic \in PackagingTopics :
        /\ \/ topic = <<"A", "I">>
           \/ /\ Len(seg) = 1
              /\ seg[1].role = "assistant" /\ seg[1].author_name = agent_names[focus]
              /\ seg[1].text # << >>
        /\ conv = [i \in 1..6 |-> IF i = 5 THEN FinalConversation(topic, focus, seg)
                                  ELSE NoConversation]
    /\ stage = 5
    /\ invoked = <<"strategy_agent", "copywriting_agent", "image_agent", "video_agent">>
    /\ research = << >>
    /\ persisted = {}
    /\ stream = "open"
    /\ yielded = NoPackage
    /\ returned = NoRun

vars == <<extractVars, videoVars, runVars, toolVars>>

VideoIdle == InitVideo /\ credentials = [t \in ToolInstances |-> TRUE]

\* the extractor on its own, over every generated payload
InitSpecExtract == InitExtract /\ VideoIdle /\ RunIdle /\ ToolsIdle

SpecExtract == InitSpecExtract /\ [][CallExtract]_vars

\* extract_json_object called on one object with a string value
InitSpecRepair ==
    /\ payload \in StringPayloads
    /\ extractOut = NotRun
    /\ fixOut = NoFix
    /\ VideoIdle
    /\ RunIdle
    /\ ToolsIdle

SpecRepair == InitSpecRepair /\ [][CallExtract]_vars

\* concurrent generate_video calls
InitSpecVideo == InitVideo /\ ExtractIdle /\ RunIdle /\ ToolsIdle

SpecVideo == InitSpecVideo /\ [][NextVideo]_vars

\* the calls under a fair scheduler: a call that can take the lock, or whose
\* remote request is under way, goes on
SpecVideoFair ==
    /\ InitSpecVideo
    /\ [][NextLock]_vars
    /\ \A c \in Callers :
          /\ WF_vars(Acquire(c))
          /\ WF_vars(pc[c] = "post" /\ \E reply \in VideoReplies.post : Post(c, reply))
          /\ WF_vars(pc[c] = "poll" /\ \E reply \in VideoReplies.poll : Poll(c, reply))
          /\ WF_vars(pc[c] = "fetch" /\ \E reply \in VideoReplies.fetch : Fetch(c, reply))

SpecOneCall == InitSpecVideo /\ [][NextOneCall]_vars

\* packaging over every generated final conversation
InitSpecPackaging == InitPackaging /\ ExtractIdle /\ VideoIdle /\ ToolsIdle

SpecPackaging == InitSpecPackaging /\ [][NextPackaging]_vars

\* one run of the workflow, from the seed conversation to run()'s return
InitSpecWorkflow == InitRun /\ ExtractIdle /\ VideoIdle /\ ToolsIdle

SpecWorkflow == InitSpecWorkflow /\ [][NextRun]_vars

InitSpecTools ==
    InitTools /\ view = NoView /\ InitCampaigns /\ ExtractIdle /\ VideoIdle /\ RunIdle

InitSpecCampaigns == ToolsIdle /\ ExtractIdle /\ VideoIdle /\ RunIdle

SpecCampaigns == InitSpecCampaigns /\ [][NextCampaigns]_vars

SpecTools == InitSpecTools /\ [][NextTools]_vars

\* run(topic) with deep research enabled, for a topic of any script
InitSpecResearch ==
    /\ config \in [enable_deep_research : {TRUE}, persist_output : BOOLEAN]
    /\ \E topic \in LanguageTopics :
        conv = [i \in 1..6 |-> IF i = 1 THEN <<Msg("user", "", topic)>> ELSE NoConversation]
    /\ stage = 1
    /\ invoked = << >>
    /\ research = << >>
    /\ persisted = {}
    /\ stream = "open"
    /\ yielded = NoPackage
    /\ returned = NoRun
    /\ ExtractIdle
    /\ VideoIdle
    /\ ToolsIdle

SpecResearch == InitSpecResearch /\ [][NextResearch]_vars

----------------------------------------------------------------------------
(* Properties *)

\* C1: however many generate_video calls run at once, on one instance or on
\* several, at most one of them is between the acquisition and the release
\* of the class-level lock (creation request, polls, fetch and file write),
\* and that one holds the lock.
C1_OneCallInCriticalSection ==
    /\ Cardinality({c \in Callers : pc[c] \in CriticalSection}) <= 1
    /\ \A c \in Callers : pc[c] \in CriticalSection => lockHolder = c

\* one call polls while a call on the other instance waits for the lock
C1_Witness ==
    \E c, d \in Callers :
        /\ pc[c] = "poll" /\ elapsed[c] > 0
        /\ pc[d] = "locking"
        /\ tool[c] # tool[d]

\* C2: a call whose creation request fails, whose status check fails, whose
\* job ends as failed or whose wait budget runs out returns a descriptor with
\* an error and without a local path; no exception reaches the caller.
C2_FailureReturnsErrorDescriptor ==
    \A c \in Callers :
        (pc[c] = "done"
         /\ cause[c] \in {"creation", "status check", "terminal failure", "wait budget"})
        => /\ outcome[c].status = "returned"
           /\ outcome[c].error # ""
           /\ outcome[c].local_path = "None"

\* C3: the executors are invoked in the order strategy (or deep research),
\* copywriting, image, video, packaging, each after it was handed its
\* conversation, and the conversation handed to participant k holds the seed
\* and then the messages of participants 1..k-1, one each, in that order and
\* as they were appended.
C3_FixedOrderFullHistory ==
    /\ Len(invoked) <= 5
    /\ \A k \in 1..Len(invoked) :
        /\ conv[k] # NoConversation
        /\ invoked[k] =
              CASE k = 1 -> (IF config.enable_deep_research
                             THEN "deep-research-executor" ELSE "strategy_agent")
                [] k = 2 -> "copywriting_agent"
                [] k = 3 -> "image_agent"
                [] k = 4 -> "video_agent"
                [] k = 5 -> "packaging-executor"
    /\ \A k \in 2..6 : conv[k] # NoConversation =>
        /\ Len(conv[k]) = k
        /\ conv[k][1] = conv[1][1]
        /\ \A n \in 1..(k - 1) :
            /\ conv[k][n + 1] = conv[n + 1][n + 1]
            /\ conv[k][n + 1].role = "assistant"
            /\ conv[k][n + 1].author_name =
                  <<"strategy_agent", "copywriting_agent", "image_agent", "video_agent",
                    "packaging_executor">>[n]

\* packaging has started after the deep-research stage and the three agents
C3_Witness ==
    /\ Len(invoked) = 5
    /\ config.enable_deep_research
    /\ Len(conv[5]) = 5

\* C4: no step changes a conversation list that exists, and the list that
\* DeepResearchExecutor.handle or _PackagingExecutor.handle sends is the
\* received list followed by exactly one assistant message of that stage's
\* author.
C4_ReceivedListUntouched ==
    [][/\ \A i \in 1..6 : conv[i] # NoConversation => conv'[i] = conv[i]
       /\ \A i \in 1..5 :
            (/\ conv[i + 1] = NoConversation
             /\ conv'[i + 1] # NoConversation
             /\ Participants(config)[i] \in {"deep-research-executor", "packaging-executor"})
            => /\ Len(conv'[i + 1]) = Len(conv[i]) + 1
               /\ SubSeq(conv'[i + 1], 1, Len(conv[i])) = conv[i]
               /\ conv'[i + 1][Len(conv[i]) + 1].role = "assistant"
               /\ conv'[i + 1][Len(conv[i]) + 1].author_name =
                     (IF Participants(config)[i] = "deep-research-executor"
                      THEN "strategy_agent" ELSE "packaging_executor")]_vars

\* both handlers have sent their list in one run
C4_Witness ==
    /\ Len(invoked) = 5
    /\ invoked[1] = "deep-research-executor"
    /\ Len(conv[6]) = 6
    /\ Len(conv[5]) = 5
    /\ Len(conv[1]) = 1

\* C5: what extract_json_object returns parses under strict JSON parsing;
\* every other call raises.
C5_ReturnsStrictJson ==
    /\ extractOut.raised = "" => JsonLoads(extractOut.value)
    /\ extractOut.raised \in {"", "empty", "boundaries", "parse", "not run"}

\* a text the character pass repaired is returned
C5_Witness ==
    /\ extractOut.raised = ""
    /\ fixOut.step = 3
    /\ extractOut.value # payload

\* C6: a run in which every generator answered with some text, and in which
\* nothing but what that text holds can be at fault, completes with a
\* package, whatever the text.
C6_MalformedTextNeverAborts ==
    (/\ returned.status # "running"
     /\ Len(invoked) = 5
     /\ conv[1][1].text # << >>
     /\ \A n \in 2..5 : conv[5][n].text # << >>
     /\ ~config.persist_output)
    => returned.status = "returned"

\* C7 as stated: when _fix_json_string ends at its last return statement,
\* extract_json_object returns that text and does not raise.
C7_BestEffortTextReturned ==
    fixOut.step = 5 => (extractOut.raised = "" /\ extractOut.value = fixOut.text)

\* C7: when the strict re-parse and the lenient parse both fail,
\* _fix_json_string returns the text both passes produced to
\* extract_json_object without raising, and extract_json_object, whose
\* final strict parse of that text fails, raises ValueError.
C7_BestEffortTextThenRaise ==
    fixOut.step = 5 =>
        /\ fixOut.text = EscapeInStrings(RemoveTrailingCommas(Candidate(WorkingText(payload))))
        /\ ~Decodes(fixOut.text, FALSE)
        /\ extractOut.raised = "parse"

\* the best-effort return after the character pass changed the text
C7_Witness ==
    /\ fixOut.step = 5
    /\ fixOut.text # Candidate(WorkingText(payload))
    /\ extractOut.raised = "parse"

\* C8: once packaging has handled a conversation in which a declared stage
\* author has no assistant message, or has an empty newest one, the handler
\* has raised: no summary was sent, no package yielded, nothing persisted,
\* and run() does not return.
C8_MissingOrEmptyIsFatal ==
    \A k \in StageKeys :
        LET authored == {i \in 1..Len(conv[5]) :
                            /\ conv[5][i].role = "assistant"
                            /\ conv[5][i].author_name = agent_names[k]}
        IN  (/\ Len(invoked) = 5
             /\ \/ authored = {}
                \/ \E i \in authored :
                      conv[5][i].text = << >> /\ \A j \in authored : j <= i)
            => /\ stream = "failed"
               /\ conv[6] = NoConversation
               /\ yielded = NoPackage
               /\ persisted = {}
               /\ returned.status # "returned"

\* the newest message of an author is empty, an older one of the same
\* author has text, and run() has raised
C8_Witness ==
    /\ returned.status = "raised"
    /\ \E k \in StageKeys : \E i, j \in 1..Len(conv[5]) :
        /\ i < j
        /\ conv[5][i] = Msg("assistant", agent_names[k], Answer[k].valid)
        /\ conv[5][j] = Msg("assistant", agent_names[k], << >>)
        /\ \A n \in (j + 1)..Len(conv[5]) : conv[5][n].author_name # agent_names[k]

\* C9: the package packaging yields holds, for each stage, the record of the
\* last assistant message carrying that stage's author name; no message of
\* another role or author stands in for it.
C9_LastAuthoredMessageWins ==
    yielded # NoPackage =>
        \A k \in StageKeys :
            \E i \in 1..Len(conv[5]) :
                /\ conv[5][i].role = "assistant"
                /\ conv[5][i].author_name = agent_names[k]
                /\ \A j \in (i + 1)..Len(conv[5]) :
                      ~(conv[5][j].role = "assistant"
                        /\ conv[5][j].author_name = agent_names[k])
                /\ conv[5][i].text =
                      CASE k = "strategy" -> yielded[1].strategy
                        [] k = "copywriting" -> yielded[1].copywriting
                        [] k = "image" -> yielded[1].images
                        [] k = "video" -> yielded[1].video

\* two assistant messages of one author with different records, the newer
\* one in the package
C9_Witness ==
    /\ yielded # NoPackage
    /\ \E i, j \in 1..Len(conv[5]) :
        /\ i < j
        /\ conv[5][i] = Msg("assistant", "copywriting_agent", Answer.copywriting.valid)
        /\ conv[5][j] = Msg("assistant", "copywriting_agent", Answer.copywriting.valid2)
        /\ yielded[1].copywriting = Answer.copywriting.valid2

\* C10: run() returns only the package packaging yielded in this run; a run
\* that ended without one raises; and when an extraction of _build_package
\* fails, packaging has persisted nothing, sent no summary and yielded
\* nothing.
C10_PackageOrRaise ==
    /\ returned.status = "returned" => (yielded # NoPackage /\ returned.value = yielded)
    /\ (returned.status # "running" /\ yielded = NoPackage) => returned.status = "raised"
    /\ yielded # NoPackage => (Len(invoked) = 5 /\ BuildPackage(conv[5]).package = yielded)
    /\ (Len(invoked) = 5 /\ BuildPackage(conv[5]).raised # "")
       => (persisted = {} /\ conv[6] = NoConversation /\ yielded = NoPackage)

\* an extraction failed with persistence switched on, and run() raised
C10_Witness ==
    /\ returned.status = "raised"
    /\ config.persist_output
    /\ Len(invoked) = 5
    /\ BuildPackage(conv[5]).raised = "extract"
    /\ persisted = {}

\* C11: a call makes at most 60 status requests (300 / 5); the 60th, when it
\* still reports a job in progress, ends the call with the 'timed out'
\* descriptor and releases the lock; the descriptor is returned by no other
\* step, so never after a status request reported 'completed'.
C11_PollingBounded ==
    [][\A c \in Callers :
        /\ checks[c] <= max_wait_time \div poll_interval
        /\ checks'[c] <= max_wait_time \div poll_interval
        /\ (pc[c] = "poll" /\ checks[c] + 1 = max_wait_time \div poll_interval
            /\ checks'[c] # checks[c])
           => pc'[c] \in {"fetch", "done"}
        /\ (outcome[c] = Pending
            /\ outcome'[c] = ErrorDescriptor("Video generation timed out", TRUE))
           => /\ pc[c] = "poll" /\ pc'[c] = "done"
              /\ checks[c] + 1 = max_wait_time \div poll_interval
              /\ lockHolder = c /\ lockHolder' = NoCaller
        /\ pc[c] = "fetch" => outcome'[c].error # "Video generation timed out"
    ]_vars

\* a call has returned the 'timed out' descriptor
C11_Witness ==
    \E c \in Callers :
        /\ pc[c] = "done"
        /\ outcome[c] = ErrorDescriptor("Video generation timed out", TRUE)
        /\ cause[c] = "wait budget"

\* C12: a handle call that found a topic and whose agents answered ran the
\* phases plan, research, synthesis once each in that order and appended its
\* message, whatever the answers were; a plan answer that does not parse
\* gave the default plan with its three dimensions, and research and
\* synthesis were handed that plan; a findings answer that does not parse
\* gave the empty envelope; a synthesis answer that does not parse gave the
\* minimal record.
C12_ParseFailuresFallBack ==
    /\ (Len(invoked) >= 1 /\ invoked[1] = "deep-research-executor"
        /\ ExtractTopic(conv[1]).raised = "")
       => research # << >>
    /\ (research # << >> /\ research[1].phase # "raised") =>
        /\ [i \in 1..Len(research) |-> research[i].phase]
               = <<"plan", "research", "synthesis">>
        /\ conv[2] = Append(conv[1], Msg("assistant", "strategy_agent",
                                         StrategyOutputText(research[3].result)))
        /\ ExtractJsonObject(research[1].reply).raised # "" =>
            /\ research[1].result.source = "default"
            /\ research[1].result.dimensions =
                   <<"Market Trends", "Target Users", "Competitive Landscape">>
            /\ research[2].plan = "default"
            /\ research[2].result.plan = "default"
            /\ research[3].plan = "default"
        /\ ExtractJsonObject(research[2].reply).raised # "" =>
            /\ research[2].result.source = "default"
            /\ research[2].result.envelope.research_findings = << >>
            /\ research[2].result.envelope.opportunity_areas = << >>
            /\ research[3].findings = "default"
        /\ ExtractJsonObject(research[3].reply).raised # "" =>
            research[3].result = MinimalStrategy(ExtractTopic(conv[1]).value)

\* none of the three answers parsed, and the message was appended
C12_Witness ==
    /\ Len(research) = 3
    /\ \A i \in 1..3 : ExtractJsonObject(research[i].reply).raised # ""
    /\ conv[2] # NoConversation
    /\ Len(conv[2]) = 2

\* C13: the text the deep-research stage publishes validates as a
\* MarketingStrategy, whatever the three agents answered.
C13_PublishedStrategyValidates ==
    (Len(research) = 3 /\ conv[2] # NoConversation)
    => ModelValidates(MarketingStrategy, conv[2][Len(conv[2])].text)

\* C14: with the strategy agent as with the deep-research executor as first
\* participant, the message the first stage appended is the one packaging's
\* lookup by the strategy author name finds in the conversation it receives.
C14_StrategyLookupFindsFirstStage ==
    conv[5] # NoConversation =>
        /\ conv[5][2] = conv[2][2]
        /\ conv[5][2].author_name = agent_names.strategy
        /\ ExtractMessageText(conv[5], agent_names.strategy).at = 2
        /\ ExtractMessageText(conv[5], agent_names.strategy).raised \in {"", "empty"}
        /\ ExtractMessageText(conv[5], agent_names.strategy).raised = ""
           => ExtractMessageText(conv[5], agent_names.strategy).text = conv[2][2].text

\* a package was built from the message the deep-research executor appended
C14_Witness ==
    /\ config.enable_deep_research
    /\ Len(research) = 3
    /\ yielded # NoPackage
    /\ yielded[1].strategy = ExtractJsonObject(conv[2][2].text).value

\* C15: the id of a yielded package is slugify(topic + "-" + audience), the
\* audience being the strategy's target_audience; it is not empty, has at
\* most 60 characters, all of them lowercase ASCII letters, digits or
\* hyphens, has no two hyphens side by side and no hyphen at either end.
C15_CampaignIdIsSlug ==
    yielded # NoPackage =>
        LET id == yielded[1].campaign_id IN
        /\ id = Slugify(yielded[1].topic \o <<"-">>
                        \o StringField(yielded[1].strategy, Field.target_audience))
        /\ id # << >>
        /\ Len(id) <= max_length
        /\ \A i \in 1..Len(id) :
               \/ id[i] \in Digits \cup {"-"}
               \/ \E n \in 1..26 : LowerLetters[n] = id[i]
        /\ \A i \in 1..(Len(id) - 1) : ~(id[i] = "-" /\ id[i + 1] = "-")
        /\ id[1] # "-"
        /\ id[Len(id)] # "-"

\* C16: a text that json.loads accepts comes back from _fix_json_string
\* character for character, so repairing what a repair returned for such a
\* text returns it once more.  The texts are the candidates that
\* extract_json_object hands to _fix_json_string.
C16_ValidTextUnchanged ==
    (fixOut # NoFix /\ JsonLoads(Candidate(WorkingText(payload)))) =>
        /\ fixOut.text = Candidate(WorkingText(payload))
        /\ FixJsonString(fixOut.text).text = fixOut.text
        /\ extractOut = [raised |-> "", value |-> Candidate(WorkingText(payload))]

\* a valid text with a comma right before a brace inside a string literal,
\* which the comma pass would have altered, was returned as it was
C16_Witness ==
    /\ fixOut # NoFix
    /\ JsonLoads(Candidate(WorkingText(payload)))
    /\ RemoveTrailingCommas(Candidate(WorkingText(payload))) # Candidate(WorkingText(payload))
    /\ fixOut.text = Candidate(WorkingText(payload))

\* C17: when the text holds a fenced block (p the first opening fence, q the
\* nearest fence that closes it), extract_json_object works on what lies
\* between the two: without a brace pair there it raises, whatever braces
\* stand outside the block; otherwise it validates the repair of the span from
\* the block's first "{" to its last "}", and returns that span itself when
\* the span is valid.
C17_FirstFencedBlockOnly ==
    \A p, q \in 1..Len(payload) :
        (/\ extractOut # NotRun
         /\ MatchesAt(payload, p, Fence)
         /\ \A r \in 1..(p - 1) : ~MatchesAt(payload, r, Fence)
         /\ q >= p + 3
         /\ MatchesAt(payload, q, Fence)
         /\ \A r \in (p + 3)..(q - 1) : ~MatchesAt(payload, r, Fence))
        => IF \E a, b \in (p + 3)..(q - 1) : a < b /\ payload[a] = "{" /\ payload[b] = "}"
           THEN \E a, b \in (p + 3)..(q - 1) :
                   /\ a < b /\ payload[a] = "{" /\ payload[b] = "}"
                   /\ \A r \in (p + 3)..(a - 1) : payload[r] # "{"
                   /\ \A r \in (b + 1)..(q - 1) : payload[r] # "}"
                   /\ extractOut = Validated(FixJsonString(SubSeq(payload, a, b)).text)
                   /\ JsonLoads(SubSeq(payload, a, b))
                        => extractOut = [raised |-> "", value |-> SubSeq(payload, a, b)]
           ELSE extractOut = [raised |-> "boundaries", value |-> << >>]

\* an object was returned from the first of two blocks of a text that has a
\* brace before the block and one after the second block
C17_Witness ==
    /\ extractOut # NotRun
    /\ extractOut.raised = ""
    /\ payload[1] = "{"
    /\ payload[Len(payload)] = "}"
    /\ Cardinality({r \in 1..Len(payload) : MatchesAt(payload, r, Fence)}) = 4
    /\ \E p \in 1..Len(payload) :
          /\ MatchesAt(payload, p, Fence)
          /\ extractOut.value = SubSeq(payload, p + 3, p + 2 + Len(extractOut.value))

\* C18: when the character pass of _fix_json_string ran on a text f, what it
\* produced is f with every raw control character that stands inside a
\* quoted string replaced by its escape, every backslash there that starts
\* no valid escape doubled, and every other character, all those outside
\* strings among them, copied.  A quote opens or closes a string when an even
\* number of backslashes stands right before it.  A text whose only defect is
\* raw newlines inside string values comes back with step 3, strict-parses,
\* is what extract_json_object returns, and decodes to the same characters.
C18_ControlCharactersEscaped ==
    fixOut.step \in {3, 4, 5} =>
        LET f == RemoveTrailingCommas(Candidate(WorkingText(payload)))
            RECURSIVE RunBefore(_)
            RunBefore(i) == IF i > 1 /\ f[i - 1] = "\\" THEN 1 + RunBefore(i - 1) ELSE 0
            Inside(i) ==
                Cardinality({j \in 1..(i - 1) : f[j] = "\"" /\ RunBefore(j) % 2 = 0}) % 2 = 1
            Escaped(ch) ==
                CASE ch = "\n" -> <<"\\", "n">>
                  [] ch = "\r" -> <<"\\", "r">>
                  [] ch = "\t" -> <<"\\", "t">>
                  [] ch = "\f" -> <<"\\", "f">>
                  [] ch = Char.BS -> <<"\\", "b">>
                  [] ch = Char.VT -> <<"\\", "u", "0", "0", "0", "b">>
                  [] ch = Char.US -> <<"\\", "u", "0", "0", "1", "f">>
            StartsNoEscape(i) ==
                /\ f[i] = "\\"
                /\ RunBefore(i) % 2 = 0
                /\ \/ i = Len(f)
                   \/ i < Len(f) /\ f[i + 1] \notin VALID_ESCAPE_CHARS \cup {"u"}
                   \/ /\ i < Len(f) /\ f[i + 1] = "u"
                      /\ ~(i + 5 <= Len(f) /\ \A k \in 2..5 : f[i + k] \in HexDigits)
            Piece(i) ==
                IF Inside(i) /\ f[i] \in ControlChars THEN Escaped(f[i])
                ELSE IF Inside(i) /\ StartsNoEscape(i) THEN <<"\\", "\\">>
                ELSE <<f[i]>>
            RECURSIVE Pieces(_)
            Pieces(i) == IF i > Len(f) THEN << >> ELSE Piece(i) \o Pieces(i + 1)
        IN  /\ fixOut.text = Pieces(1)
            /\ \A i \in 1..Len(f) : ~Inside(i) => Piece(i) = <<f[i]>>
            /\ (~JsonLoads(Candidate(WorkingText(payload)))
                    /\ Decodes(Candidate(WorkingText(payload)), FALSE))
                => /\ fixOut.step = 3
                   /\ JsonLoads(fixOut.text)
                   /\ extractOut = [raised |-> "", value |-> fixOut.text]
                   /\ Unescape(fixOut.text) = Unescape(f)
                   /\ \E i \in 1..Len(f) : f[i] = "\n" /\ Inside(i)

\* the object whose string value is one raw newline was returned with the
\* newline escaped
C18_Witness ==
    /\ fixOut # NoFix
    /\ Candidate(WorkingText(payload)) = KeyOpen \o <<"\"", "\n", "\"", "}">>
    /\ fixOut = [text |-> KeyOpen \o <<"\"", "\\", "n", "\"", "}">>, step |-> 3]
    /\ extractOut = [raised |-> "", value |-> fixOut.text]

\* C19: the comma pass of _fix_json_string deletes the commas that only
\* whitespace separates from a closing bracket or brace and nothing else: a
\* text returned right after the pass (step 2) is the input without those
\* commas and strict-parses, a text returned later is the character pass
\* applied to the input without those commas; {"k":1,} comes back as {"k":1}.
C19_TrailingCommasDeleted ==
    fixOut.step \in {2, 3, 4, 5} =>
        LET c == Candidate(WorkingText(payload))
            Deleted(i) ==
                /\ c[i] = ","
                /\ \E j \in (i + 1)..Len(c) :
                      /\ c[j] \in {"}", "]"}
                      /\ \A k \in (i + 1)..(j - 1) : c[k] \in PyWs
            RECURSIVE Rest(_)
            Rest(i) ==
                IF i > Len(c) THEN << >>
                ELSE (IF Deleted(i) THEN << >> ELSE <<c[i]>>) \o Rest(i + 1)
        IN  /\ fixOut.step = 2 =>
                /\ fixOut.text = Rest(1)
                /\ JsonLoads(fixOut.text)
                /\ extractOut = [raised |-> "", value |-> fixOut.text]
                /\ \E i \in 1..Len(c) : Deleted(i)
            /\ fixOut.step > 2 => fixOut.text = EscapeInStrings(Rest(1))
            /\ c = KeyOpen \o <<"1", ",", "}">>
                => fixOut = [text |-> KeyOpen \o <<"1", "}">>, step |-> 2]

\* {"k":1,} was repaired to {"k":1} by the comma pass and returned
C19_Witness ==
    /\ fixOut = [text |-> KeyOpen \o <<"1", "}">>, step |-> 2]
    /\ payload = KeyOpen \o <<"1", ",", "}">>
    /\ extractOut = [raised |-> "", value |-> KeyOpen \o <<"1", "}">>]

\* C20: for every integer asked of generate_video, the duration the call
\* holds from the snapping on, which is the one posted to the service, is 4, 8
\* or 12, no other of the three is strictly nearer to what was asked, and of
\* two equally near ones (asked 6 or 10) it is the smaller; the descriptor of
\* a fetched video reports that same duration.
C20_DurationSnappedToNearest ==
    [][\A c \in Callers :
         /\ seconds'[c] # NoSeconds =>
               /\ seconds'[c].sent \in {4, 8, 12}
               /\ \A m \in {4, 8, 12} :
                     LET d == seconds'[c].sent - seconds'[c].asked
                         e == m - seconds'[c].asked
                     IN  /\ (IF d < 0 THEN 0 - d ELSE d) <= (IF e < 0 THEN 0 - e ELSE e)
                         /\ (IF d < 0 THEN 0 - d ELSE d) = (IF e < 0 THEN 0 - e ELSE e)
                               => seconds'[c].sent <= m
               /\ seconds'[c].asked = 6 => seconds'[c].sent = 4
               /\ seconds'[c].asked = 10 => seconds'[c].sent = 8
         /\ (pc[c] = "idle" /\ pc'[c] = "locking") => seconds'[c] # NoSeconds
         /\ pc'[c] \in CriticalSection => seconds'[c] = seconds[c] /\ seconds[c] # NoSeconds
         /\ (pc[c] = "fetch" /\ outcome'[c].error = "" /\ outcome'[c].status = "returned")
               => outcome'[c].duration_seconds = seconds[c].sent
    ]_vars

\* a call asked for 10 seconds has posted 8 and is about to fetch its video
C20_Witness ==
    \E c \in Callers : pc[c] = "fetch" /\ seconds[c] = [asked |-> 10, sent |-> 8]

\* C28: extract_json_object raises without calling _fix_json_string when the
\* payload is empty, when the working text has no "{" or no "}", and when
\* its last "}" stands before its first "{"; otherwise the text handed to
\* the repair is the span from the first "{" to the last "}" of the working
\* text, and the outcome is the validation of what the repair returned.
C28_CandidateSpanOrExplicitFailure ==
    extractOut # NotRun =>
        IF payload = << >>
        THEN extractOut = [raised |-> "empty", value |-> << >>] /\ fixOut = NoFix
        ELSE LET w == WorkingText(payload)
                 opens == {i \in 1..Len(w) : w[i] = "{"}
                 closes == {i \in 1..Len(w) : w[i] = "}"}
             IN  IF opens = {} \/ closes = {}
                 THEN extractOut = [raised |-> "boundaries", value |-> << >>] /\ fixOut = NoFix
                 ELSE \E a \in opens, b \in closes :
                        /\ \A i \in opens : a <= i
                        /\ \A i \in closes : i <= b
                        /\ IF b < a
                           THEN /\ extractOut = [raised |-> "boundaries", value |-> << >>]
                                /\ fixOut = NoFix
                           ELSE /\ fixOut = FixJsonString(SubSeq(w, a, b))
                                /\ extractOut = Validated(fixOut.text)

\* a text whose only closing brace stands before its only opening brace was
\* refused, and the repair was not called
C28_Witness ==
    /\ extractOut = [raised |-> "boundaries", value |-> << >>]
    /\ fixOut = NoFix
    /\ \E a, b \in 1..Len(payload) : b < a /\ payload[a] = "{" /\ payload[b] = "}"

\* C27: in the text r that the character pass of _fix_json_string made of a
\* text f, every backslash inside a quoted string that is not itself escaped
\* is followed by one of " \ / b f n r t or by u and four hexadecimal
\* digits.  The pass copied each such escape of f as it stood, wrote two
\* backslashes for every other backslash inside a string (before another
\* character, before u without four hexadecimal digits, at the end of the
\* text) and copied the backslashes outside strings.
C27_BackslashesBeginValidEscapes ==
    fixOut.step \in {3, 4, 5} =>
        LET f == RemoveTrailingCommas(Candidate(WorkingText(payload)))
            r == fixOut.text
            escapes == {"\"", "\\", "/", "b", "f", "n", "r", "t"}
            RECURSIVE Run(_, _)
            Run(s, i) == IF i > 1 /\ s[i - 1] = "\\" THEN 1 + Run(s, i - 1) ELSE 0
            InString(s, i) ==
                Cardinality({j \in 1..(i - 1) : s[j] = "\"" /\ Run(s, j) % 2 = 0}) % 2 = 1
            Starts(s, i) == s[i] = "\\" /\ InString(s, i) /\ Run(s, i) % 2 = 0
            Valid(s, i) ==
                /\ i < Len(s)
                /\ \/ s[i + 1] \in escapes
                   \/ /\ s[i + 1] = "u"
                      /\ i + 5 <= Len(s)
                      /\ \A k \in 2..5 : s[i + k] \in HexDigits
            Image(i) ==
                IF InString(f, i) /\ f[i] \in ControlChars THEN EscapeControl(f[i])
                ELSE IF Starts(f, i) /\ ~Valid(f, i) THEN <<"\\", "\\">>
                ELSE <<f[i]>>
            RECURSIVE Images(_)
            Images(i) == IF i > Len(f) THEN << >> ELSE Image(i) \o Images(i + 1)
        IN  /\ \A i \in 1..Len(r) : Starts(r, i) => Valid(r, i)
            /\ r = Images(1)
            /\ \A i \in 1..Len(f) :
                  (f[i] = "\\" /\ ~InString(f, i)) => Image(i) = <<"\\">>

\* {"k":"\1"}, whose backslash starts no escape, came back with the
\* backslash doubled, which strict-parses
C27_Witness ==
    /\ fixOut = [text |-> KeyOpen \o <<"\"", "\\", "\\", "1", "\"", "}">>, step |-> 3]
    /\ payload = KeyOpen \o <<"\"", "\\", "1", "\"", "}">>
    /\ extractOut = [raised |-> "", value |-> fixOut.text]

\* C30: when extract_json_object returns an object for a text without
\* backslashes, the characters that stand inside quoted strings are the same
\* in the text and in the object returned (escapes undone): no comma inside a
\* string is removed.
C30_StringContentKept ==
    (extractOut.raised = "" /\ \A i \in 1..Len(payload) : payload[i] # "\\") =>
        LET c == Candidate(WorkingText(payload))
            v == extractOut.value
            RECURSIVE Back(_, _)
            Back(s, i) == IF i > 1 /\ s[i - 1] = "\\" THEN 1 + Back(s, i - 1) ELSE 0
            Within(s, i) ==
                Cardinality({j \in 1..(i - 1) : s[j] = "\"" /\ Back(s, j) % 2 = 0}) % 2 = 1
            RECURSIVE Content(_, _)
            Content(s, i) ==
                IF i > Len(s) THEN << >>
                ELSE (IF Within(s, i) THEN <<s[i]>> ELSE << >>) \o Content(s, i + 1)
        IN  Unescape(Content(v, 1)) = Content(c, 1)

\* C25: every descriptor generate_video returned holds an error or the
\* location of a written file.
C25_ErrorOrArtifact ==
    \A c \in Callers :
        outcome[c].status = "returned"
            => outcome[c].error # "" \/ outcome[c].local_path # "None"

C26_LockAlwaysReleased ==
    /\ [][\A c \in Callers :
            /\ (pc[c] \in CriticalSection /\ pc'[c] \notin CriticalSection)
                  => lockHolder = c /\ lockHolder' = NoCaller /\ pc'[c] = "done"
            /\ lockHolder' = c => pc'[c] \in CriticalSection
            /\ (pc[c] = "idle" /\ pc'[c] = "done")
                  => lockHolder' = lockHolder /\ lockHolder # c /\ outcome'[c].status = "raised"
       ]_vars
    /\ [][\A c \in Callers :
            (pc[c] = "locking" /\ pc'[c] # "locking") => pc'[c] \in CriticalSection]_vars
    /\ <>[](\A c \in Callers : pc[c] # "locking")

\* a call holds the lock after another call left the critical section through
\* an exception of its creation request
C26_Witness ==
    \E c, d \in Callers :
        /\ c # d
        /\ lockHolder = c
        /\ pc[c] \in CriticalSection
        /\ pc[d] = "done"
        /\ outcome[d] = Raised("exception in requests.post")

\* C24: once the Deep-Research stage has published its strategy, the
\* strategy's output_language is the language _detect_language finds in the
\* topic.
C24_OutputLanguageDetected ==
    (Len(research) = 3 /\ stage = 2)
        => StringField(conv[2][Len(conv[2])].text, Field.output_language)
               = DetectLanguage(ExtractTopic(conv[1]).value)

\* C21: a call of web_search or generate_image on a tool whose credential or
\* endpoint is missing ends in an error raised to the caller.
C21_MissingCredentialIsFatal ==
    /\ (called.tool = "web_search" /\ ~tavily.api_key) => called.result.status = "raised"
    /\ (called.tool = "generate_image" /\ ~(flux.endpoint /\ flux.api_key))
          => called.result.status = "raised"

\* C22: a web_search whose client.search raised returns the query with an
\* error, no results and an empty answer; a generate_image whose
\* client.images.generate raised returns an error with url and local_path
\* None; and a call that returns an error leaves _generated_images as it was.
C22_FailureIsReturnedInPayload ==
    /\ [](called.reply = "exception" =>
            /\ called.result.status = "returned"
            /\ called.result.error # ""
            /\ called.tool = "web_search" =>
                  /\ called.result.query = called.arg
                  /\ called.result.results = << >>
                  /\ called.result.answer = ""
            /\ called.tool = "generate_image" =>
                  /\ called.result.prompt_id = called.arg
                  /\ called.result.url = "None"
                  /\ called.result.local_path = "None")
    /\ [][(called' # called /\ called'.result.error # "")
            => flux'.generated_images = flux.generated_images]_vars

\* both tools have returned from a failed external call: the image tool,
\* holding an earlier image, last
C22_Witness ==
    /\ called.tool = "generate_image"
    /\ called.reply = "exception"
    /\ tavily.client
    /\ Len(flux.generated_images) = 1

\* C23: the campaign directories of any two started runs differ, every asset
\* of a run was written under the run's campaign directory, and the run's
\* package was persisted into that directory.
C23_OwnDirectoryPerRun ==
    \A r \in RunCalls :
        runs[r].pc # "idle" =>
            /\ runs[r].written \subseteq {runs[r].campaign_dir}
            /\ runs[r].persisted \in {NoDir, runs[r].campaign_dir}
            /\ \A q \in RunCalls \ {r} :
                  runs[q].pc # "idle" => runs[q].campaign_dir # runs[r].campaign_dir

====
